---- MODULE Spec2Model ----
(***************************************************************************)
(* A model of the MCP discovery pipeline of backend/web_scraper.py         *)
(* (MCPWebScraper) and backend/enhanced_mcp_explorer.py                    *)
(* (MCPSchemaValidator, EnhancedMCPExplorer): candidate documents are      *)
(* fetched, classified, scored, merged, deduplicated, sorted, truncated    *)
(* and cached with a TTL.                                                  *)
(*                                                                         *)
(* Python values are modelled as follows.                                  *)
(*   str    a TLA+ string (TLC evaluates Len, SubSeq and \o on strings)    *)
(*   float  an IEEE-754 double in [0, 2), held exactly as the integer      *)
(*          hi * 2^29 + lo in units of 2^-57 (record [hi, lo])             *)
(*   a JSON/YAML scalar   a record [k, v]: k its Python type, v its text   *)
(*   an exception         "raise" in place of a parser's result, a field    *)
(*                        raised |-> TRUE in the result of a function      *)
(***************************************************************************)
EXTENDS Integers, Sequences, FiniteSets, TLC

(***************************************************************************)
(* Strings                                                                 *)
(***************************************************************************)

\* Python's `sub in text` on two str values.
Contains(text, sub) ==
    \E i \in 1..(Len(text) - Len(sub) + 1) : SubSeq(text, i, i + Len(sub) - 1) = sub

\* Python's text.endswith(suffix).
EndsWith(text, suffix) ==
    /\ Len(suffix) <= Len(text)
    /\ SubSeq(text, Len(text) - Len(suffix) + 1, Len(text)) = suffix

UpperChars == "ABCDEFGHIJKLMNOPQRSTUVWXYZ"
LowerChars == "abcdefghijklmnopqrstuvwxyz"
DigitChars == "0123456789"

UpperSet == {SubSeq(UpperChars, i, i) : i \in 1..Len(UpperChars)}

\* str.lower() of a single character.
LowerChar(c) ==
    IF c \in UpperSet
    THEN LET i == CHOOSE j \in 1..Len(UpperChars) : SubSeq(UpperChars, j, j) = c
         IN  SubSeq(LowerChars, i, i)
    ELSE c

RECURSIVE Lower(_)
\* Python's str.lower(), character by character.
Lower(s) ==
    IF Len(s) = 0 THEN s
    ELSE LowerChar(SubSeq(s, 1, 1)) \o Lower(SubSeq(s, 2, Len(s)))

\* Every character of s is one of those of the string `allowed`.
CharsIn(s, allowed) ==
    \A i \in 1..Len(s) : Contains(allowed, SubSeq(s, i, i))

(***************************************************************************)
(* Floats: IEEE-754 doubles in [0, 2) in units of 2^-57, round to nearest  *)
(* even on every addition, as CPython's float does.                        *)
(***************************************************************************)

LimbBase == 2^29

F(hi, lo) == [hi |-> hi, lo |-> lo]

F_0_0  == F(0, 0)                          \* 0.0
F_0_05 == F(13421772, 429496730)           \* 0.05
F_0_1  == F(26843545, 322122548)           \* 0.1
F_0_2  == F(53687091, 107374184)           \* 0.2
F_0_5  == F(134217728, 0)                  \* 0.5
F_0_7  == F(187904819, 107374176)          \* the literal 0.70
F_0_8  == F(214748364, 429496736)          \* 0.8
F_1_0  == F(268435456, 0)                  \* 1.0

\* x < y and x <= y on doubles.
FLess(x, y) == x.hi < y.hi \/ (x.hi = y.hi /\ x.lo < y.lo)
FLeq(x, y)  == x = y \/ FLess(x, y)

\* The spacing of doubles around the exact value hi * 2^29 + lo.
Ulp(hi) ==
    IF hi >= 268435456 THEN 32            \* [1, 2):      2^-52
    ELSE IF hi >= 134217728 THEN 16       \* [0.5, 1):    2^-53
    ELSE IF hi >= 67108864 THEN 8         \* [0.25, 0.5): 2^-54
    ELSE 4

\* Round the exact value hi * 2^29 + lo to the nearest double, ties to even.
FRound(hi, lo) ==
    LET g    == Ulp(hi)
        r    == lo % g
        down == lo - r
        up   == IF 2 * r > g THEN TRUE
                ELSE IF 2 * r < g THEN FALSE
                ELSE (down \div g) % 2 = 1
        lo2  == IF up THEN down + g ELSE down
    IN  IF lo2 = LimbBase THEN F(hi + 1, 0) ELSE F(hi, lo2)

\* x + y on doubles.
FAdd(x, y) ==
    LET lo == x.lo + y.lo
        c  == lo \div LimbBase
    IN  FRound(x.hi + y.hi + c, lo % LimbBase)

\* An addition that does not look at the signal.
AddAlways(cond, score, x) == FAdd(score, x)

\* `if cond: score += x`
AddWhen(cond, score, x) == IF cond THEN FAdd(score, x) ELSE score

\* x * 0.5 on doubles: exact, the exponent drops by one.
FHalf(x) ==
    F(x.hi \div 2, ((x.hi % 2) * LimbBase + x.lo) \div 2)

\* Python's min(x, y) on doubles.
FMin(x, y) == IF FLess(y, x) THEN y ELSE x

(***************************************************************************)
(* Documents.  A fetched text is held with what json.loads and             *)
(* yaml.safe_load make of it: `json` and `yaml` say whether each parser    *)
(* accepts the text, `kind` is the Python type of the parsed value and     *)
(* `data` the parsed mapping.  A scalar of the mapping is [k, v] with k    *)
(* in "absent", "str", "int", "null".                                      *)
(***************************************************************************)

Absent == [k |-> "absent", v |-> ""]
Null   == [k |-> "null", v |-> ""]
StrVal(s) == [k |-> "str", v |-> s]
IntVal(s) == [k |-> "int", v |-> s]

\* bool(value) for a value read with dict.get: a missing key reads as None.
Truthy(val) ==
    \/ val.k = "str" /\ val.v # ""
    \/ val.k = "int" /\ val.v # "0"

\* f"{value}" with dict.get(key, ''): a missing key formats as the empty string.
Format(val) ==
    IF val.k = "null" THEN "None" ELSE val.v

NoParams == [k |-> "absent", keys |-> <<>>]
Params(keys) == [k |-> "dict", keys |-> keys]

Tool(name, description, parameters) ==
    [isDict |-> TRUE, name |-> name, description |-> description,
     parameters |-> parameters]

\* An element of `tools` that is not a mapping (a bare string).
NotATool ==
    [isDict |-> FALSE, name |-> Absent, description |-> Absent,
     parameters |-> NoParams]

NoTools == [k |-> "absent", items |-> <<>>]
\* `tools: null`
NullTools == [k |-> "null", items |-> <<>>]
Tools(items) == [k |-> "list", items |-> items]

Mapping(name, description, version, domain, tools) ==
    [name |-> name, description |-> description, version |-> version,
     domain |-> domain, tools |-> tools]

EmptyMapping == Mapping(Absent, Absent, Absent, Absent, NoTools)

\* A text both parsers accept as the mapping `data` (JSON is read the same by YAML).
JsonText(text, data) ==
    [text |-> text, json |-> TRUE, yaml |-> TRUE, kind |-> "dict", data |-> data]

\* A text only yaml.safe_load accepts, as the mapping `data`.
YamlText(text, data) ==
    [text |-> text, json |-> FALSE, yaml |-> TRUE, kind |-> "dict", data |-> data]

\* A text yaml.safe_load reads as a plain string scalar, and json.loads rejects.
ScalarText(text) ==
    [text |-> text, json |-> FALSE, yaml |-> TRUE, kind |-> "str", data |-> EmptyMapping]

\* A text neither parser accepts.
BrokenText(text) ==
    [text |-> text, json |-> FALSE, yaml |-> FALSE, kind |-> "none", data |-> EmptyMapping]

\* What a failed fetch leaves in place of a text (None).
NoContent ==
    [text |-> "", json |-> FALSE, yaml |-> FALSE, kind |-> "none", data |-> EmptyMapping]

\* json.loads(content): the parsed value, or "raise" (JSONDecodeError).
JsonLoads(content) == IF content.json THEN "ok" ELSE "raise"

\* yaml.safe_load(content): the parsed value, or "raise" (YAMLError).
YamlSafeLoad(content) == IF content.yaml THEN "ok" ELSE "raise"

\* The try json.loads / except JSONDecodeError: yaml.safe_load chain of the
\* scraper's helpers: "ok" when `content.data` (of type content.kind) was
\* produced, "raise" when both parsers failed.
LoadJsonThenYaml(content) ==
    IF JsonLoads(content) = "ok" THEN "ok" ELSE YamlSafeLoad(content)

(***************************************************************************)
(* MCPWebScraper: classifier, metadata extractors and confidence scorer.   *)
(***************************************************************************)

\* data.get(key): a missing key reads as None.
Get(val) == IF val.k = "absent" THEN Null ELSE val

\* A classifier that takes any text for a document.
accepts_any_text(content) == content.text # ""

\* MCPWebScraper._is_valid_mcp_content
is_valid_mcp_content(content) ==
    /\ LoadJsonThenYaml(content) = "ok"
    /\ content.kind = "dict"
    /\ content.data.name.k # "absent"
    /\ content.data.tools.k # "absent"
    /\ content.data.tools.k = "list"
    /\ \A i \in 1..Len(content.data.tools.items) :
          LET tool == content.data.tools.items[i]
          IN  /\ tool.isDict
              /\ tool.name.k # "absent"
              /\ tool.description.k # "absent"

\* MCPWebScraper._extract_name_from_content: None when parsing or .get raises.
extract_name_from_content(content) ==
    IF LoadJsonThenYaml(content) = "ok" /\ content.kind = "dict"
    THEN Get(content.data.name)
    ELSE Null

\* MCPWebScraper._extract_description_from_content
extract_description_from_content(content) ==
    IF LoadJsonThenYaml(content) = "ok" /\ content.kind = "dict"
    THEN Get(content.data.description)
    ELSE Null

\* The domain_keywords table of MCPWebScraper._extract_domain_from_content,
\* in the order the dict is iterated (insertion order).
scraper_domain_keywords ==
    << [domain |-> "weather",       keywords |-> <<"weather", "climate", "forecast", "temperature">>],
       [domain |-> "finance",       keywords |-> <<"finance", "trading", "stock", "crypto", "payment">>],
       [domain |-> "travel",        keywords |-> <<"travel", "booking", "hotel", "flight", "airbnb">>],
       [domain |-> "productivity",  keywords |-> <<"calendar", "task", "note", "email", "schedule">>],
       [domain |-> "development",   keywords |-> <<"code", "git", "github", "deploy", "api">>],
       [domain |-> "social",        keywords |-> <<"social", "twitter", "facebook", "instagram", "post">>],
       [domain |-> "ecommerce",     keywords |-> <<"shop", "store", "product", "cart", "order">>],
       [domain |-> "data",          keywords |-> <<"data", "analytics", "database", "query", "search">>],
       [domain |-> "ai",            keywords |-> <<"ai", "ml", "llm", "gpt", "model">>],
       [domain |-> "communication", keywords |-> <<"chat", "message", "slack", "discord", "teams">>] >>

RECURSIVE DomainFrom(_, _, _)
\* for domain, keywords in table.items(): if any(keyword in text ...): return domain
\* from row i on, and 'general' when no row matches.
DomainFrom(table, text, i) ==
    IF i > Len(table) THEN "general"
    ELSE IF \E j \in 1..Len(table[i].keywords) : Contains(text, table[i].keywords[j])
         THEN table[i].domain
         ELSE DomainFrom(table, text, i + 1)

\* A scan that lets the last matching row win.
LastDomain(table, text) ==
    IF \A i \in 1..Len(table) : DomainFrom(table, text, i) = "general" THEN "general"
    ELSE table[CHOOSE i \in 1..Len(table) :
                  /\ DomainFrom(table, text, i) = table[i].domain
                  /\ \A j \in (i + 1)..Len(table) : DomainFrom(table, text, j) = "general"].domain

FirstDomain(table, text) == DomainFrom(table, text, 1)

\* MCPWebScraper._extract_domain_from_content: the document's own `domain`
\* value when the key is present, whatever its type; 'general' on any error.
extract_domain_from_content(content) ==
    IF LoadJsonThenYaml(content) = "ok" /\ content.kind = "dict"
    THEN IF content.data.domain.k # "absent"
         THEN content.data.domain
         ELSE StrVal(FirstDomain(scraper_domain_keywords,
                  Lower(Format(content.data.name) \o " " \o Format(content.data.description))))
    ELSE StrVal("general")

\* bool(tool.get('parameters'))
ParamsTruthy(parameters) ==
    \/ parameters.k = "dict" /\ Len(parameters.keys) > 0
    \/ parameters.k = "str"

RECURSIVE ScoreTools(_, _, _)
\* The `for tool in data.get('tools', [])` loop of the scorer from tool i on:
\* [score, raised], raised when tool.get of a tool that is no mapping or
\* len() of a description that is not a string raises, which ends the try
\* block with the score reached so far.
ScoreTools(items, i, score) ==
    IF i > Len(items) THEN [score |-> score, raised |-> FALSE]
    ELSE IF ~items[i].isDict THEN [score |-> score, raised |-> TRUE]
    ELSE IF items[i].description.k \notin {"str", "absent"}
         THEN [score |-> AddWhen(ParamsTruthy(items[i].parameters), score, F_0_05),
               raised |-> TRUE]
         ELSE ScoreTools(items, i + 1,
                  AddWhen(Len(items[i].description.v) > 20,
                      AddWhen(ParamsTruthy(items[i].parameters), score, F_0_05),
                      F_0_05))

\* "Schema completeness": the base score 0.5, + 0.1 for a description,
\* + 0.1 for a version.
ScoreCompleteness(data) ==
    AddWhen(Truthy(data.version),
        AddWhen(Truthy(data.description), F_0_5, F_0_1), F_0_1)

\* "URL quality" and "Title/description quality", from the score the tools
\* loop left; nothing is added once the loop has raised.
ScoreUrlAndTitle(t, url, title) ==
    IF t.raised THEN t.score
    ELSE AddWhen(\/ Contains(Lower(title), "mcp")
                 \/ Contains(Lower(title), "model context protocol"),
             AddWhen(Contains(url, ".mcp."),
                 AddWhen(Contains(url, "github.com"), t.score, F_0_1), F_0_1),
             F_0_1)

\* MCPWebScraper._calculate_confidence_score: an exception inside the try
\* block (a text no parser reads, a value that is no mapping, len() of
\* `tools: null`) leaves the score reached so far.
scraper_calculate_confidence_score(content, url, title, description) ==
    FMin(IF LoadJsonThenYaml(content) # "ok" \/ content.kind # "dict"
         THEN F_0_5
         ELSE IF content.data.tools.k \notin {"list", "absent"}
              THEN ScoreCompleteness(content.data)
              ELSE ScoreUrlAndTitle(
                       ScoreTools(content.data.tools.items, 1,
                           AddWhen(Len(content.data.tools.items) > 1,
                               ScoreCompleteness(content.data), F_0_1)),
                       url, title),
         F_1_0)

(***************************************************************************)
(* MCPSchemaValidator: the strict shape contract (jsonschema.validate      *)
(* against MCP_SCHEMA, then _validate_tools).                              *)
(***************************************************************************)

\* "pattern": "^[a-zA-Z0-9._-]+$"
NamePatternOk(s) ==
    /\ Len(s) >= 1
    /\ CharsIn(s, LowerChars \o UpperChars \o DigitChars \o "._-")

\* "pattern": "^\\d+\\.\\d+\\.\\d+$": three non-empty runs of digits, two dots.
VersionPatternOk(s) ==
    \E i \in 2..(Len(s) - 3) : \E j \in (i + 2)..(Len(s) - 1) :
        /\ SubSeq(s, i, i) = "."
        /\ SubSeq(s, j, j) = "."
        /\ CharsIn(SubSeq(s, 1, i - 1), DigitChars)
        /\ CharsIn(SubSeq(s, i + 1, j - 1), DigitChars)
        /\ CharsIn(SubSeq(s, j + 1, Len(s)), DigitChars)

\* One element of "tools" against the "items" subschema.
ToolSchemaOk(tool) ==
    /\ tool.isDict
    /\ tool.name.k = "str" /\ NamePatternOk(tool.name.v)
    /\ tool.description.k = "str" /\ Len(tool.description.v) >= 10
    /\ tool.parameters.k = "dict"

\* jsonschema.validate(instance=schema, schema=MCP_SCHEMA) raises nothing.
JsonSchemaOk(content) ==
    /\ content.kind = "dict"
    /\ content.data.name.k = "str"
    /\ NamePatternOk(content.data.name.v)
    /\ content.data.version.k = "str"
    /\ VersionPatternOk(content.data.version.v)
    /\ content.data.description.k \in {"absent", "str"}
    /\ content.data.tools.k = "list"
    /\ Len(content.data.tools.items) >= 1
    /\ \A i \in 1..Len(content.data.tools.items) : ToolSchemaOk(content.data.tools.items[i])

\* MCPSchemaValidator._validate_tools
validate_tools(items) ==
    \A i \in 1..Len(items) :
        /\ items[i].parameters.k \in {"dict", "absent"}
        /\ \A j \in 1..Len(items[i].parameters.keys) :
              /\ items[i].parameters.keys[j].k = "str"
              /\ items[i].parameters.keys[j].v # ""

\* A validator that accepts every document.
validate_anything(content) == TRUE

\* MCPSchemaValidator.validate_schema: is_valid (every exception is caught
\* and turned into False).
validate_schema(content) ==
    /\ JsonSchemaOk(content)
    /\ validate_tools(content.data.tools.items)

(***************************************************************************)
(* MCPWebScraper: from one listing entry to a ScrapedMCP record.           *)
(*                                                                         *)
(* A listing entry (a search result element or a link) is                  *)
(*   [hasTitle, title, url, description, files]                            *)
(* with url already joined to the platform's base URL, description the     *)
(* text of the entry's description element ("" when it has none) and       *)
(* files the MCP files found for the entry's repository, each              *)
(* [name, html_url, raw_url, hasRawUrl].  `fetch` is the remote corpus: it *)
(* maps a URL to the text _fetch_file_content returns for it, NoContent    *)
(* when the request fails or answers non-200.                              *)
(***************************************************************************)

None == Null

\* The first match of [^/]+ in s at position i: the run of non-slash characters.
RECURSIVE Segment(_, _)
Segment(s, i) ==
    IF i > Len(s) \/ SubSeq(s, i, i) = "/" THEN ""
    ELSE SubSeq(s, i, i) \o Segment(s, i + 1)

\* re.search(r'github\.com/([^/]+/[^/]+)', url): group 1, None without a match.
github_repository(url) ==
    LET marker == "github.com/"
        hit(i) == /\ SubSeq(url, i, i + Len(marker) - 1) = marker
                  /\ LET owner == Segment(url, i + Len(marker))
                         repo  == Segment(url, i + Len(marker) + Len(owner) + 1)
                     IN  Len(owner) > 0 /\ Len(repo) > 0
        starts == {i \in 1..(Len(url) - Len(marker) + 1) : hit(i)}
    IN  IF starts = {} THEN None
        ELSE LET i     == CHOOSE j \in starts : \A h \in starts : j <= h
                 owner == Segment(url, i + Len(marker))
                 repo  == Segment(url, i + Len(marker) + Len(owner) + 1)
             IN  StrVal(owner \o "/" \o repo)

\* url.replace('/blob/', '/raw/') for a URL with at most one '/blob/'.
RawUrl(url) ==
    IF Contains(url, "/blob/")
    THEN LET i == CHOOSE j \in 1..(Len(url) - 5) : SubSeq(url, j, j + 5) = "/blob/"
         IN  SubSeq(url, 1, i - 1) \o "/raw/" \o SubSeq(url, i + 6, Len(url))
    ELSE url

\* `if content and self._is_valid_mcp_content(content)`
Accepted(content) == content.text # "" /\ is_valid_mcp_content(content)

ScrapedMCP(name, description, source_url, content, file_type, domain, confidence, repository) ==
    [name |-> name, description |-> description, source_url |-> source_url,
     content |-> content, file_type |-> file_type, domain |-> domain,
     confidence_score |-> confidence, repository |-> repository]

\* `a or b` on two values.
Or(a, b) == IF Truthy(a) THEN a ELSE b

\* The record the three result parsers build once a text is accepted:
\* name = extracted name or title, description = listing description or
\* the extracted description (None when the document has none).
ParsedRecord(content, title, description, score_url, type_name, source_url, repository) ==
    ScrapedMCP(Or(extract_name_from_content(content), StrVal(title)),
               Or(StrVal(description), extract_description_from_content(content)),
               source_url, content,
               IF EndsWith(type_name, ".json") THEN "json" ELSE "yaml",
               extract_domain_from_content(content),
               scraper_calculate_confidence_score(content, score_url, title, description),
               repository)

\* The `for mcp_file in mcp_files` loop of _parse_github_result from file i
\* on: the first accepted file's record, <<>> when there is none; a file
\* without 'raw_url' raises KeyError, which the parser's except turns into None.
RECURSIVE FirstRepoFile(_, _, _, _, _)
FirstRepoFile(fetch, entry, repository, files, i) ==
    IF i > Len(files) THEN <<>>
    ELSE IF ~files[i].hasRawUrl THEN <<>>
    ELSE IF Accepted(fetch[files[i].raw_url])
         THEN << ParsedRecord(fetch[files[i].raw_url], entry.title, entry.description,
                              entry.url, files[i].name, files[i].html_url, repository) >>
         ELSE FirstRepoFile(fetch, entry, repository, files, i + 1)

\* MCPWebScraper._parse_github_result: <<record>> or <<>> (None).
parse_github_result(fetch, entry) ==
    LET repository == github_repository(entry.url)
    IN  IF ~entry.hasTitle THEN <<>>
        ELSE IF Contains(entry.url, "/blob/")
        THEN IF Accepted(fetch[RawUrl(entry.url)])
             THEN << ParsedRecord(fetch[RawUrl(entry.url)], entry.title, entry.description,
                                  entry.url, entry.url, entry.url, repository) >>
             ELSE <<>>
        ELSE IF repository # None
        THEN FirstRepoFile(fetch, entry, repository, entry.files, 1)
        ELSE <<>>

\* MCPWebScraper._parse_gitlab_result
parse_gitlab_result(fetch, entry) ==
    IF ~entry.hasTitle THEN <<>>
    ELSE IF Contains(entry.url, "/blob/") /\ Accepted(fetch[RawUrl(entry.url)])
    THEN << ParsedRecord(fetch[RawUrl(entry.url)], entry.title, entry.description,
                         entry.url, entry.url, entry.url, None) >>
    ELSE <<>>

\* any(re.search(pattern, filename) for pattern in self.mcp_file_patterns)
mcp_file_patterns(filename) ==
    \E suffix \in {".mcp.json", ".mcp.yaml", ".mcp.yml",
                   "mcpschema.json", "mcp-schema.json", "mcp_schema.json",
                   "mcpconfig.json", "mcp-config.json", "mcp_config.json",
                   "tools.json", "schema.json"} \cup
                  {"model" \o a \o "context" \o b \o "protocol.json" :
                       a \in {"", "-", "_"}, b \in {"", "-", "_"}} :
        EndsWith(filename, suffix)

\* The `for link in file_links` loop of _parse_huggingface_result from link i on.
RECURSIVE FirstHubFile(_, _, _, _)
FirstHubFile(fetch, entry, files, i) ==
    IF i > Len(files) THEN <<>>
    ELSE IF mcp_file_patterns(files[i].name) /\ Accepted(fetch[files[i].raw_url])
         THEN << ParsedRecord(fetch[files[i].raw_url], entry.title, entry.description,
                              entry.url, files[i].name, files[i].html_url, None) >>
         ELSE FirstHubFile(fetch, entry, files, i + 1)

\* MCPWebScraper._parse_huggingface_result: entry.files are the /blob/ links
\* of the repository's file page, <<>> when that page does not answer 200.
parse_huggingface_result(fetch, entry) ==
    IF ~entry.hasTitle THEN <<>>
    ELSE FirstHubFile(fetch, entry, entry.files, 1)

\* MCPWebScraper._fetch_and_validate_mcp
fetch_and_validate_mcp(fetch, url, title) ==
    LET content == fetch[url]
    IN  IF Accepted(content)
        THEN << ScrapedMCP(
                  Or(Or(extract_name_from_content(content), StrVal(title)),
                     StrVal("Unknown MCP")),
                  Or(extract_description_from_content(content),
                     StrVal("MCP found at " \o url)),
                  url, content,
                  IF EndsWith(url, ".json") THEN "json" ELSE "yaml",
                  extract_domain_from_content(content),
                  scraper_calculate_confidence_score(content, url, title, ""),
                  None) >>
        ELSE <<>>

(***************************************************************************)
(* MCPWebScraper: the five source adapters, the merge and the ranking.     *)
(*                                                                         *)
(* A page is what one search URL answers: [status, items], items the       *)
(* listing entries the page's selector yields (<<>> unless status is 200). *)
(* An adapter's pages come in the order of its search URLs.                *)
(***************************************************************************)

Min(a, b) == IF a < b THEN a ELSE b
Max(a, b) == IF a > b THEN a ELSE b

\* A slice that lets one element too many through.
TakeOneMore(seq, n) == SubSeq(seq, 1, Min(n + 1, Len(seq)))

\* Python's seq[:n].
Take(seq, n) ==
    IF n >= 0 THEN SubSeq(seq, 1, Min(n, Len(seq)))
    ELSE SubSeq(seq, 1, Max(Len(seq) + n, 0))

\* The list a comprehension [i \in 1..n |-> e] builds, element by element.
List(f) == SubSeq(f, 1, Cardinality(DOMAIN f))

RECURSIVE Extend(_)
Extend(lists) ==
    IF Len(lists) = 0 THEN <<>> ELSE Head(lists) \o Extend(Tail(lists))

\* results.extend(...) over a sequence of lists, in order.
Flatten(lists) == Extend(List(lists))

\* MCPWebScraper._search_github: every page that answers 200 contributes the
\* records of its first `limit` entries; any other page contributes nothing.
search_github(fetch, pages, limit) ==
    Flatten([p \in 1..Len(pages) |->
        IF pages[p].status = 200
        THEN LET entries == Take(pages[p].items, limit)
             IN  Flatten([e \in 1..Len(entries) |-> parse_github_result(fetch, entries[e])])
        ELSE <<>>])

\* A GitLab adapter that reads the listing of any answer, whatever its status.
search_gitlab_any_status(fetch, pages, limit) ==
    Flatten([e \in 1..Len(Take(pages[1].items, limit)) |->
                parse_gitlab_result(fetch, Take(pages[1].items, limit)[e])])

\* MCPWebScraper._search_gitlab: one search URL.
search_gitlab(fetch, pages, limit) ==
    IF pages[1].status = 200
    THEN LET entries == Take(pages[1].items, limit)
         IN  Flatten([e \in 1..Len(entries) |-> parse_gitlab_result(fetch, entries[e])])
    ELSE <<>>

\* MCPWebScraper._search_huggingface: one search URL.
search_huggingface(fetch, pages, limit) ==
    IF pages[1].status = 200
    THEN LET entries == Take(pages[1].items, limit)
         IN  Flatten([e \in 1..Len(entries) |-> parse_huggingface_result(fetch, entries[e])])
    ELSE <<>>

\* 'github.com' in link_url or 'gitlab.com' in link_url
IsRepoLink(url) == Contains(url, "github.com") \/ Contains(url, "gitlab.com")

RECURSIVE AwesomeMarkdown(_, _, _, _, _)
\* The `for title, link_url in links` loop of a markdown page from link i on,
\* `results` being the adapter's list so far: it breaks once an appended
\* record brings the list to `limit` records or more.
AwesomeMarkdown(fetch, links, i, results, limit) ==
    IF i > Len(links) THEN results
    ELSE LET mcp == IF IsRepoLink(links[i].url)
                    THEN fetch_and_validate_mcp(fetch, links[i].url, links[i].title)
                    ELSE <<>>
         IN  IF Len(mcp) > 0 /\ Len(results \o mcp) >= limit
             THEN results \o mcp
             ELSE AwesomeMarkdown(fetch, links, i + 1, results \o mcp, limit)

\* The repository links of an HTML topic page: its first `limit` selected links.
AwesomeHtml(fetch, links, limit) ==
    LET repo_links == Take(SelectSeq(links, LAMBDA l : IsRepoLink(l.url)), limit)
    IN  Flatten([e \in 1..Len(repo_links) |->
                    fetch_and_validate_mcp(fetch, repo_links[e].url, repo_links[e].title)])

RECURSIVE AwesomePages(_, _, _, _, _)
\* MCPWebScraper._search_awesome_lists from page p on: pages 1 and 2 are the
\* two README.md URLs, pages 3 and 4 the two topic pages.
AwesomePages(fetch, pages, p, results, limit) ==
    IF p > Len(pages) THEN results
    ELSE IF pages[p].status # 200
         THEN AwesomePages(fetch, pages, p + 1, results, limit)
         ELSE IF p <= 2
              THEN AwesomePages(fetch, pages, p + 1,
                       AwesomeMarkdown(fetch, pages[p].items, 1, results, limit), limit)
              ELSE AwesomePages(fetch, pages, p + 1,
                       results \o AwesomeHtml(fetch, pages[p].items, limit), limit)

\* MCPWebScraper._search_awesome_lists
search_awesome_lists(fetch, pages, limit) == AwesomePages(fetch, pages, 1, <<>>, limit)

\* any(pattern in href for pattern in ['.json', '.yaml', 'mcp'])
LooksLikeMcp(url) ==
    Contains(url, ".json") \/ Contains(url, ".yaml") \/ Contains(url, "mcp")

\* MCPWebScraper._search_general_web: per search engine, the first `limit`
\* result links, those that look like an MCP file fetched with an empty title.
search_general_web(fetch, pages, limit) ==
    Flatten([p \in 1..Len(pages) |->
        IF pages[p].status = 200
        THEN LET links == Take(pages[p].items, limit)
             IN  Flatten([e \in 1..Len(links) |->
                     IF LooksLikeMcp(links[e].url)
                     THEN fetch_and_validate_mcp(fetch, links[e].url, "")
                     ELSE <<>>])
        ELSE <<>>])

\* MCPWebScraper._deduplicate_results: first record per md5(content + url);
\* md5 is taken to be injective on the texts of the model.
RECURSIVE scraper_deduplicate_results(_)
scraper_deduplicate_results(results) ==
    IF Len(results) = 0 THEN <<>>
    ELSE LET n     == Len(results)
             init  == scraper_deduplicate_results(SubSeq(results, 1, n - 1))
             key(r) == r.content.text \o r.source_url
         IN  IF \E j \in 1..Len(init) : key(init[j]) = key(results[n])
             THEN init
             ELSE Append(init, results[n])

RECURSIVE SortedIndices(_, _)
\* The order sorted(..., reverse=True) gives the first n positions of a list
\* whose sort keys are `keys`: descending, equal keys in their original order.
SortedIndices(keys, n) ==
    IF n = 0 THEN <<>>
    ELSE LET before == SortedIndices(keys, n - 1)
             ahead  == Cardinality({j \in 1..(n - 1) : FLeq(keys[n], keys[j])})
         IN  SubSeq(before, 1, ahead) \o <<n>> \o SubSeq(before, ahead + 1, n - 1)

\* sorted(items, key=..., reverse=True) given each item's key.
SortDescending(items, keys) ==
    LET order == SortedIndices(List(keys), Len(items))
    IN  List([i \in 1..Len(items) |-> items[order[i]]])

\* relevance_score(result) of MCPWebScraper._rank_results; calling .lower()
\* on a name or description that is not a str raises AttributeError.
RelevanceRaises(result) ==
    result.name.k # "str" \/ result.description.k # "str"

relevance_score(result, query) ==
    AddWhen(result.domain \in {StrVal("ai"), StrVal("development"), StrVal("productivity")},
        AddWhen(Contains(Lower(result.description.v), Lower(query)),
            AddWhen(Contains(Lower(result.name.v), Lower(query)),
                result.confidence_score, F_0_2),
            F_0_1),
        F_0_05)

\* MCPWebScraper._rank_results: [raised, list].
rank_results(results, query) ==
    IF \E i \in 1..Len(results) : RelevanceRaises(results[i])
    THEN [raised |-> TRUE, list |-> <<>>]
    ELSE [raised |-> FALSE,
          list |-> SortDescending(results,
                       [i \in 1..Len(results) |-> relevance_score(results[i], query)])]

(***************************************************************************)
(* EnhancedMCPExplorer: the API-source adapters.                           *)
(*                                                                         *)
(* A code-search item is [name, download_url, html_url, repository] with   *)
(* download_url "" when the item has none and repository                   *)
(* [k, full_name, stargazers_count]: k is "dict", "absent" (no such key)   *)
(* or "null"; stargazers_count is a scalar.                                *)
(***************************************************************************)

NoRepository == [k |-> "absent", full_name |-> "", stargazers_count |-> Absent]
NullRepository == [k |-> "null", full_name |-> "", stargazers_count |-> Absent]
Repository(full_name, stars) ==
    [k |-> "dict", full_name |-> full_name, stargazers_count |-> stars]

RECURSIVE ToNat(_)
\* The number a string of decimal digits writes.
ToNat(s) ==
    IF s = "" THEN 0
    ELSE 10 * ToNat(SubSeq(s, 1, Len(s) - 1))
         + (CHOOSE d \in 0..9 : SubSeq(DigitChars, d + 1, d + 1) = SubSeq(s, Len(s), Len(s)))

\* item.get('repository', {}).get('stargazers_count', 0) > n raises: the
\* repository is None (AttributeError) or the count is no number (TypeError).
StarsRaises(repository) ==
    \/ repository.k = "null"
    \/ repository.k = "dict" /\ repository.stargazers_count.k \notin {"absent", "int"}

\* item.get('repository', {}).get('stargazers_count', 0) > n, when it does not raise.
StarsAbove(repository, n) ==
    /\ repository.k = "dict"
    /\ repository.stargazers_count.k = "int"
    /\ ToNat(repository.stargazers_count.v) > n

\* EnhancedMCPExplorer._calculate_confidence_score(schema, item):
\* [raised, score], raised when an exception leaves the function.  `schema`
\* is a parsed value [kind, data]; a value that is not a mapping has no .get,
\* and len() of `tools: null` raises TypeError.
explorer_calculate_confidence_score(schema, item) ==
    IF \/ schema.kind # "dict"
       \/ schema.data.tools.k = "null"
       \/ StarsRaises(item.repository)
    THEN [raised |-> TRUE, score |-> F_0_0]
    ELSE [raised |-> FALSE,
          score |->
              FMin(AddWhen(Contains(item.name, ".mcp."),
                       AddWhen(StarsAbove(item.repository, 100),
                           AddWhen(StarsAbove(item.repository, 10),
                               AddWhen(Len(schema.data.tools.items) > 1,
                                   AddWhen(Truthy(schema.data.version),
                                       AddWhen(Truthy(schema.data.description), F_0_5, F_0_1),
                                       F_0_1),
                                   F_0_1),
                               F_0_1),
                           F_0_1),
                       F_0_1),
                   F_1_0)]

\* RateLimitedSession.get is an `async def` under the synchronous decorators
\* sleep_and_retry and limits: calling it returns a coroutine object that
\* nothing has awaited, not a response context manager.
RateLimitedSession_get == "coroutine"

\* `async with obj as response:` raises TypeError for an object without
\* __aenter__/__aexit__, which a coroutine is.
AsyncWithRaises(obj) == obj = "coroutine"

MCPSearchResult(name, description, source_url, domain, validated, schema, file_type, repository, stars, source_platform, confidence_score) ==
    [name |-> name, description |-> description, source_url |-> source_url,
     domain |-> domain, validated |-> validated, schema |-> schema,
     file_type |-> file_type, repository |-> repository, stars |-> stars,
     source_platform |-> source_platform, confidence_score |-> confidence_score]

\* schema=None
NoSchema == [kind |-> "none", data |-> EmptyMapping]
\* schema=<the parsed value>
SchemaOf(content) == [kind |-> content.kind, data |-> content.data]

\* The domain_keywords table of EnhancedMCPExplorer._extract_domain.
explorer_domain_keywords ==
    << [domain |-> "weather",       keywords |-> <<"weather", "climate", "forecast", "temperature", "meteorology">>],
       [domain |-> "finance",       keywords |-> <<"finance", "trading", "stock", "crypto", "payment", "banking">>],
       [domain |-> "travel",        keywords |-> <<"travel", "booking", "hotel", "flight", "airbnb", "tourism">>],
       [domain |-> "productivity",  keywords |-> <<"calendar", "task", "note", "email", "schedule", "todo">>],
       [domain |-> "development",   keywords |-> <<"code", "git", "github", "deploy", "api", "programming">>],
       [domain |-> "social",        keywords |-> <<"social", "twitter", "facebook", "instagram", "post", "media">>],
       [domain |-> "ecommerce",     keywords |-> <<"shop", "store", "product", "cart", "order", "commerce">>],
       [domain |-> "data",          keywords |-> <<"data", "analytics", "database", "query", "search", "analysis">>],
       [domain |-> "ai",            keywords |-> <<"ai", "ml", "llm", "gpt", "model", "intelligence">>],
       [domain |-> "communication", keywords |-> <<"chat", "message", "slack", "discord", "teams">>] >>

\* EnhancedMCPExplorer._extract_domain
extract_domain(name, description) ==
    FirstDomain(explorer_domain_keywords, Lower(name \o " " \o description))

\* EnhancedMCPExplorer._process_github_file_enhanced: <<record>> or <<>>
\* (None).  `files` maps a download URL to [status, content].  The request
\* itself raises before any response exists, and the except returns None.
process_github_file_enhanced(files, item) ==
    LET response == files[item.download_url]
        content  == response.content
        is_json  == EndsWith(item.name, ".json")
        is_yaml  == EndsWith(item.name, ".yaml") \/ EndsWith(item.name, ".yml")
        score    == explorer_calculate_confidence_score(SchemaOf(content), item)
        description == IF content.data.description.k = "absent"
                       THEN StrVal("MCP from " \o item.repository.full_name)
                       ELSE content.data.description
    IN  IF item.download_url = "" THEN <<>>
        ELSE IF AsyncWithRaises(RateLimitedSession_get) THEN <<>>
        ELSE IF response.status # 200 THEN <<>>
        ELSE IF is_json /\ JsonLoads(content) = "raise" THEN <<>>
        ELSE IF ~is_json /\ is_yaml /\ YamlSafeLoad(content) = "raise" THEN <<>>
        ELSE IF ~is_json /\ ~is_yaml THEN <<>>
        ELSE IF ~validate_schema(content) THEN <<>>
        ELSE IF item.repository.k # "dict" \/ score.raised THEN <<>>
        ELSE << MCPSearchResult(content.data.name, description, item.html_url,
                    StrVal(extract_domain(content.data.name.v, Format(description))),
                    TRUE, SchemaOf(content),
                    IF is_json THEN "json" ELSE "yaml",
                    StrVal(item.repository.full_name),
                    IF item.repository.stargazers_count.k = "absent"
                    THEN IntVal("0") ELSE item.repository.stargazers_count,
                    "github", score.score) >>

\* The body of one `async with session.get(url) as response` search request
\* of the API adapters, `page` being what the URL would answer: entering the
\* block raises, and the enclosing except moves on with nothing appended.
ApiSearchRequest(files, page, limit) ==
    IF AsyncWithRaises(RateLimitedSession_get) THEN <<>>
    ELSE IF page.status = 200
         THEN LET items == Take(page.items, limit)
              IN  Flatten([e \in 1..Len(items) |-> process_github_file_enhanced(files, items[e])])
         ELSE <<>>

\* EnhancedMCPExplorer._search_github_enhanced: search_queries[:3].
search_github_enhanced(api, limit) ==
    Flatten([q \in 1..3 |-> ApiSearchRequest(api.files, api.github[q], limit)])

\* EnhancedMCPExplorer._process_huggingface_item: every file request raises
\* inside its own try, so every one of the four file names is skipped.
process_huggingface_item(files, item) ==
    LET names == <<"mcp.json", "mcp.yaml", "schema.json", "tools.json">>
        url(n) == "https://huggingface.co/" \o item.id \o "/raw/main/" \o names[n]
        parses(n) == IF EndsWith(names[n], ".json")
                     THEN JsonLoads(files[url(n)].content) = "ok"
                     ELSE YamlSafeLoad(files[url(n)].content) = "ok"
        good(n) == /\ ~AsyncWithRaises(RateLimitedSession_get)
                   /\ files[url(n)].status = 200
                   /\ parses(n)
                   /\ validate_schema(files[url(n)].content)
    IN  IF item.id = "" \/ \A n \in 1..4 : ~good(n) THEN <<>>
        ELSE LET n == CHOOSE m \in 1..4 : good(m) /\ \A h \in 1..(m - 1) : ~good(h)
                 content == files[url(n)].content
                 description == IF content.data.description.k = "absent"
                                THEN StrVal(item.description)
                                ELSE content.data.description
             IN  << MCPSearchResult(content.data.name, description,
                        "https://huggingface.co/" \o item.id,
                        StrVal(IF \E t \in 1..Len(item.tags) :
                                     item.tags[t] \in {"nlp", "computer-vision", "audio", "tabular"}
                               THEN "ai"
                               ELSE extract_domain(content.data.name.v, Format(description))),
                        TRUE, SchemaOf(content),
                        IF EndsWith(names[n], ".json") THEN "json" ELSE "yaml",
                        StrVal(item.id), item.likes, "huggingface", F_0_8) >>

\* EnhancedMCPExplorer._search_huggingface: two search URLs, data[:limit//2].
explorer_search_huggingface(api, limit) ==
    Flatten([u \in 1..2 |->
        IF AsyncWithRaises(RateLimitedSession_get) THEN <<>>
        ELSE IF api.hub[u].status = 200
             THEN LET items == Take(api.hub[u].items, limit \div 2)
                  IN  Flatten([e \in 1..Len(items) |-> process_huggingface_item(api.files, items[e])])
             ELSE <<>>])

\* EnhancedMCPExplorer._search_known_repositories over the three
\* known_sources, each through _search_github_repo with limit // 3.
search_known_repositories(api, limit) ==
    Flatten([k \in 1..3 |-> ApiSearchRequest(api.files, api.known[k], limit \div 3)])

\* EnhancedMCPExplorer._search_api_sources: the three adapters with
\* limit // 3 each, their lists concatenated in task order.
search_api_sources(api, limit) ==
    search_github_enhanced(api, limit \div 3)
    \o explorer_search_huggingface(api, limit \div 3)
    \o search_known_repositories(api, limit \div 3)

(***************************************************************************)
(* The two search_web_mcps entry points.  A remote corpus is               *)
(*   [github, gitlab, hub, awesome, web]                                   *)
(* the pages each scraper adapter's search URLs answer, and `fetch` the    *)
(* texts of the file URLs; a request that raises leaves nothing of its     *)
(* page, like a page that does not answer 200.                             *)
(***************************************************************************)

\* The lists the five search tasks of MCPWebScraper.search_web_mcps hand to
\* asyncio.gather, in task order, each task with max_results // 4.
search_tasks(fetch, corpus, max_results) ==
    << search_github(fetch, corpus.github, max_results \div 4),
       search_gitlab(fetch, corpus.gitlab, max_results \div 4),
       search_huggingface(fetch, corpus.hub, max_results \div 4),
       search_awesome_lists(fetch, corpus.awesome, max_results \div 4),
       search_general_web(fetch, corpus.web, max_results \div 4) >>

\* ranked_results[:max_results]
ranked_results_cut(ranked_results, max_results) ==
    [raised |-> ranked_results.raised,
     list   |-> Take(ranked_results.list, max_results)]

\* MCPWebScraper.search_web_mcps: [raised, list]; the exception of
\* _rank_results is not caught here.
scraper_search_web_mcps(fetch, corpus, query, max_results) ==
    ranked_results_cut(
        rank_results(
            scraper_deduplicate_results(Flatten(search_tasks(fetch, corpus, max_results))),
            query),
        max_results)

\* One turn of the `for scraped_mcp in scraped_mcps` loop of
\* EnhancedMCPExplorer.search_web_mcps: the parser is chosen by file_type; a
\* parser exception gives the unvalidated record with half the confidence.
convert_scraped(scraped_mcp) ==
    LET parsed   == IF scraped_mcp.file_type = "json"
                    THEN JsonLoads(scraped_mcp.content)
                    ELSE YamlSafeLoad(scraped_mcp.content)
        is_valid == validate_schema(scraped_mcp.content)
    IN  IF parsed = "ok"
        THEN MCPSearchResult(scraped_mcp.name, scraped_mcp.description,
                 scraped_mcp.source_url, scraped_mcp.domain, is_valid,
                 IF is_valid THEN SchemaOf(scraped_mcp.content) ELSE NoSchema,
                 scraped_mcp.file_type, scraped_mcp.repository, None,
                 "web_scraping", scraped_mcp.confidence_score)
        ELSE MCPSearchResult(scraped_mcp.name, scraped_mcp.description,
                 scraped_mcp.source_url, scraped_mcp.domain, FALSE, NoSchema,
                 scraped_mcp.file_type, scraped_mcp.repository, None,
                 "web_scraping", FHalf(scraped_mcp.confidence_score))

\* The (name.lower(), source_url) key of EnhancedMCPExplorer._deduplicate_results.
result_key(result) == <<Lower(result.name.v), result.source_url>>

\* A merge that drops no record.
keep_all_results(results) == results

RECURSIVE explorer_deduplicate_results(_)
\* EnhancedMCPExplorer._deduplicate_results: the first record of every key,
\* in input order.
explorer_deduplicate_results(results) ==
    IF Len(results) = 0 THEN <<>>
    ELSE LET n    == Len(results)
             init == explorer_deduplicate_results(SubSeq(results, 1, n - 1))
         IN  IF \E j \in 1..Len(init) : result_key(init[j]) = result_key(results[n])
             THEN init
             ELSE Append(init, results[n])

\* A merge that leaves the records in merge order.
keep_merge_order(results) == results

\* sorted(unique_results, key=lambda x: x.confidence_score, reverse=True)
sort_by_confidence(results) ==
    SortDescending(results, [i \in 1..Len(results) |-> results[i].confidence_score])

\* sorted_results[:limit]
final_results(results, limit) == Take(sort_by_confidence(explorer_deduplicate_results(results)), limit)

\* cache_key: md5 is taken to be injective on the (query, limit) pairs of the model.
cache_key(query, limit) == "mcp_search:" \o query \o ":" \o ToString(limit)

\* The default ttl of EnhancedMCPExplorer._cache_results, in seconds.
TTL == 3600

(***************************************************************************)
(* The remote world the searches run against: documents, file URLs,        *)
(* listing entries and the corpora built from them.                        *)
(***************************************************************************)

\* name, version and one tool, no description: strict-valid.
WeatherDoc ==
    JsonText("{\"name\":\"weather.forecast\",\"version\":\"1.0.0\",\"tools\":[{\"name\":\"get_forecast\",\"description\":\"Return the forecast for a location\",\"parameters\":{\"location\":\"string\"}}]}",
        Mapping(StrVal("weather.forecast"), Absent, StrVal("1.0.0"), Absent,
            Tools(<< Tool(StrVal("get_forecast"), StrVal("Return the forecast for a location"),
                          Params(<<StrVal("location")>>)) >>)))

\* strict-valid, with a description.
XDoc ==
    JsonText("{\"name\":\"x\",\"version\":\"1.0.0\",\"description\":\"x tool\",\"tools\":[{\"name\":\"run\",\"description\":\"Run the x tool\",\"parameters\":{\"q\":\"string\"}}]}",
        Mapping(StrVal("x"), StrVal("x tool"), StrVal("1.0.0"), Absent,
            Tools(<< Tool(StrVal("run"), StrVal("Run the x tool"), Params(<<StrVal("q")>>)) >>)))

\* Another document named "X": no version, a tool without parameters.
UpperXDoc ==
    JsonText("{\"name\":\"X\",\"description\":\"second X\",\"domain\":\"ai\",\"tools\":[{\"name\":\"run\",\"description\":\"Run\"}]}",
        Mapping(StrVal("X"), StrVal("second X"), Absent, StrVal("ai"),
            Tools(<< Tool(StrVal("run"), StrVal("Run"), NoParams) >>)))

\* A YAML document (not JSON), strict-valid once parsed.
YamlDoc ==
    YamlText("name: y\nversion: 0.1.0\ndescription: y tool\ntools:\n- name: go\n  description: Go somewhere y\n  parameters: {}\n",
        Mapping(StrVal("y"), StrVal("y tool"), StrVal("0.1.0"), Absent,
            Tools(<< Tool(StrVal("go"), StrVal("Go somewhere y"), Params(<<>>)) >>)))

\* Two tools, strict-valid.
HubDoc ==
    JsonText("{\"name\":\"h.tools\",\"version\":\"2.0.0\",\"description\":\"hub tools\",\"tools\":[{\"name\":\"a\",\"description\":\"first hub tool\",\"parameters\":{}},{\"name\":\"b\",\"description\":\"second hub tool\",\"parameters\":{}}]}",
        Mapping(StrVal("h.tools"), StrVal("hub tools"), StrVal("2.0.0"), Absent,
            Tools(<< Tool(StrVal("a"), StrVal("first hub tool"), Params(<<>>)),
                     Tool(StrVal("b"), StrVal("second hub tool"), Params(<<>>)) >>)))

\* A name and an empty tools list.
EmptyToolsDoc ==
    JsonText("{\"name\":\"t\",\"tools\":[]}",
        Mapping(StrVal("t"), Absent, Absent, Absent, Tools(<<>>)))

\* A number for a name.
IntNameDoc ==
    JsonText("{\"name\":7,\"description\":\"seven\",\"tools\":[]}",
        Mapping(IntVal("7"), StrVal("seven"), Absent, Absent, Tools(<<>>)))

PlainText == ScalarText("not json at all")

GithubX       == "https://github.com/o/a/blob/m/x.mcp.json"
GithubWeather == "https://github.com/o/w/blob/m/w.mcp.json"
GithubRepo    == "https://github.com/o/r"
GithubRepoFile == "https://github.com/o/r/blob/m/r.mcp.json"
GitlabX       == "https://gitlab.com/o/a/blob/m/x.json"
GitlabY       == "https://gitlab.com/o/y/blob/m/y.json"
HubRepo       == "https://huggingface.co/o/h"
HubFile       == "https://huggingface.co/o/h/blob/main/tools.json"
WebT          == "https://e.com/t.json"
WebPlain      == "https://e.com/mcp"

\* What each file URL answers; every other URL fails to fetch.
Remote ==
    << <<RawUrl(GithubX), XDoc>>,
       <<GithubX, UpperXDoc>>,
       <<RawUrl(GithubWeather), WeatherDoc>>,
       <<RawUrl(GithubRepoFile), IntNameDoc>>,
       <<RawUrl(GitlabX), XDoc>>,
       <<RawUrl(GitlabY), YamlDoc>>,
       <<RawUrl(HubFile), HubDoc>>,
       <<WebT, EmptyToolsDoc>>,
       <<WebPlain, PlainText>> >>

Urls ==
    {GithubX, GithubWeather, GithubRepo, GithubRepoFile, GitlabX, GitlabY,
     HubRepo, HubFile, WebT, WebPlain}
    \cup {RawUrl(u) : u \in {GithubX, GithubWeather, GithubRepoFile, GitlabX, GitlabY, HubFile}}

\* MCPWebScraper._fetch_file_content over the remote: the text of a URL
\* that answers 200, None (NoContent) for any other.
fetch_file_content ==
    [u \in Urls |->
        IF \E i \in 1..Len(Remote) : Remote[i][1] = u
        THEN Remote[CHOOSE i \in 1..Len(Remote) : Remote[i][1] = u][2]
        ELSE NoContent]

Entry(title, url, description, files) ==
    [hasTitle |-> TRUE, title |-> title, url |-> url,
     description |-> description, files |-> files]

File(name, html_url, raw_url) ==
    [name |-> name, html_url |-> html_url, raw_url |-> raw_url, hasRawUrl |-> TRUE]

Page(items) == [status |-> 200, items |-> items]
\* A search URL that does not answer 200 (or whose request raises).
Down == [status |-> 503, items |-> <<>>]

EntryX        == Entry("o/a", GithubX, "x tool list", <<>>)
EntryWeather  == Entry("o/w", GithubWeather, "Weather tools", <<>>)
\* The same file listed without a description element.
EntryBare     == Entry("o/w", GithubWeather, "", <<>>)
EntryRepo     == Entry("o/r mcp", GithubRepo, "seven",
                       << File("r.mcp.json", GithubRepoFile, RawUrl(GithubRepoFile)) >>)
EntryGitlabX  == Entry("o/a", GitlabX, "model tools", <<>>)
EntryGitlabY  == Entry("o/y", GitlabY, "", <<>>)
EntryHub      == Entry("o/h", HubRepo, "",
                       << File("tools.json", HubFile, RawUrl(HubFile)) >>)

\* What the four GitHub search URLs may answer.
GithubPages ==
    { <<Down, Down, Down, Down>>,
      <<Page(<<EntryWeather, EntryX>>), Page(<<EntryX>>), Down, Page(<<>>)>>,
      <<Page(<<EntryBare, EntryX>>), Down, Down, Down>>,
      <<Page(<<EntryX>>), Down, Down, Page(<<EntryRepo>>)>> }

GitlabPages == { <<Down>>, <<Page(<<EntryGitlabX>>)>>, <<Page(<<EntryGitlabY>>)>> }

HubPages == { <<Down>>, <<Page(<<EntryHub>>)>> }

\* The two README.md URLs, then the two topic pages.
AwesomePageSets ==
    { <<Down, Down, Down, Down>>,
      <<Page(<<Entry("x mcp", GithubX, "", <<>>)>>), Down, Down, Down>>,
      <<Page(<<Entry("x mcp", GithubX, "", <<>>)>>),
        Page(<<Entry("y", RawUrl(GitlabY), "", <<>>)>>),
        Page(<<Entry("w", GithubWeather, "", <<>>)>>), Down>> }

\* The three search engines.
WebPages ==
    { <<Down, Down, Down>>,
      <<Page(<<Entry("", WebT, "", <<>>), Entry("", WebPlain, "", <<>>)>>), Down, Down>> }

Corpora ==
    { [github |-> g, gitlab |-> l, hub |-> h, awesome |-> a, web |-> w] :
        g \in GithubPages, l \in GitlabPages, h \in HubPages,
        a \in AwesomePageSets, w \in WebPages }

\* What the API hosts would answer the explorer's own adapters.
ApiItem ==
    [name |-> "x.mcp.json", download_url |-> RawUrl(GithubX), html_url |-> GithubX,
     repository |-> Repository("o/a", IntVal("12"))]

ApiCorpus ==
    [files  |-> [u \in Urls |-> [status |-> 200, content |-> fetch_file_content[u]]],
     github |-> <<Page(<<ApiItem>>), Page(<<ApiItem>>), Page(<<ApiItem>>)>>,
     hub    |-> <<Page(<<>>), Page(<<>>)>>,
     known  |-> <<Page(<<ApiItem>>), Down, Down>>]

(***************************************************************************)
(* The state machine: one EnhancedMCPExplorer, its cache, a clock and the  *)
(* calls of search_web_mcps in flight.                                     *)
(***************************************************************************)

Queries == {"x"}
MaxLimit == 4
Limits == {1, MaxLimit}
MaxCalls == 1
Calls == 1..MaxCalls
MaxTicks == 2
\* The clock advances by one second or by the TTL.
TickSteps == {1, TTL}

ScraperAdapters == {"github", "gitlab", "huggingface", "awesome_lists", "general_web"}
ApiAdapters == {"github_enhanced", "huggingface_api", "known_repositories"}

VARIABLES
    corpus,         \* the remote corpus, unchanged during a behaviour
    cache_enabled,  \* TRUE: Redis answered the ping in __init__
    redis_client,   \* the Redis store: key -> [data, expire_at]
    memory_cache,   \* self.memory_cache: key -> [data, expires]
    now,            \* datetime.now(), in seconds
    ticks,          \* how many times the clock advanced
    calls,          \* per call of search_web_mcps: its position and locals
    scorer_input,   \* the arguments handed to a confidence scorer
    scorer_output,  \* what the scorer did with them
    fn_input,       \* the arguments handed to a helper of the scraper
    fn_output,      \* what the helper did with them
    tasks,          \* per task that fetches a file: its position and wake-up time
    requests,       \* the outbound requests issued so far: [task, at]
    adapter_tasks,  \* per source adapter of one search: its place in its search URLs
    completed,      \* the adapter tasks of one gather, in the order they completed
    search_cache,   \* main.py: the rows of the search_cache table
    sessions,       \* main.py: the rows of the sessions table
    http_response   \* main.py: what the last request to an endpoint was answered

vars == <<corpus, cache_enabled, redis_client, memory_cache, now, ticks, calls,
          scorer_input, scorer_output, fn_input, fn_output, tasks, requests,
          adapter_tasks, completed, search_cache, sessions, http_response>>

\* A call that has not started (or whose result the caller has taken).
\*   pc       "idle", "scraping" (awaiting the scraper), "api" (awaiting
\*            _search_api_sources) or "done"
\*   results  the local list `results`
\*   value    the returned list
\*   outcome  how the call ended: "cached", "fresh" or "failed" (outer except)
\*   returned what the caller receives: a "list" or an "error"
\*   invoked  the source adapters the call has invoked
\*   seen     what the cache lookup found for the key: "miss", "live" (an
\*            entry before its expiry) or "stale", with the entry's expiry
\*            and list
IdleCall ==
    [pc |-> "idle", query |-> "", limit |-> 0, results |-> <<>>, value |-> <<>>,
     outcome |-> "none", returned |-> "none", invoked |-> {},
     seen |-> "none", seen_expires |-> 0, seen_data |-> <<>>]

\* A lookup that never looks at the expiry time.
get_cached_results_unexpired(key) ==
    IF cache_enabled /\ key \in DOMAIN redis_client
    THEN [found |-> TRUE, list |-> redis_client[key].data, memory |-> memory_cache,
          seen |-> "live", expires |-> redis_client[key].expire_at]
    ELSE IF ~cache_enabled /\ key \in DOMAIN memory_cache
    THEN [found |-> TRUE, list |-> memory_cache[key].data, memory |-> memory_cache,
          seen |-> "live", expires |-> memory_cache[key].expires]
    ELSE [found |-> FALSE, list |-> <<>>, memory |-> memory_cache,
          seen |-> "miss", expires |-> 0]

\* EnhancedMCPExplorer._get_cached_results: [found, list, memory, seen,
\* expires]; found FALSE is None, memory the in-memory cache afterwards.
\* Redis drops a key once the clock has passed its expiry time.
get_cached_results(key) ==
    IF cache_enabled
    THEN IF key \in DOMAIN redis_client
         THEN IF now <= redis_client[key].expire_at
              THEN [found |-> TRUE, list |-> redis_client[key].data, memory |-> memory_cache,
                    seen |-> "live", expires |-> redis_client[key].expire_at]
              ELSE [found |-> FALSE, list |-> <<>>, memory |-> memory_cache,
                    seen |-> "stale", expires |-> redis_client[key].expire_at]
         ELSE [found |-> FALSE, list |-> <<>>, memory |-> memory_cache,
               seen |-> "miss", expires |-> 0]
    ELSE IF key \in DOMAIN memory_cache
         THEN IF memory_cache[key].expires > now
              THEN [found |-> TRUE, list |-> memory_cache[key].data, memory |-> memory_cache,
                    seen |-> "live", expires |-> memory_cache[key].expires]
              ELSE [found |-> FALSE, list |-> <<>>,
                    memory |-> [k \in DOMAIN memory_cache \ {key} |-> memory_cache[k]],
                    seen |-> "stale", expires |-> memory_cache[key].expires]
         ELSE [found |-> FALSE, list |-> <<>>, memory |-> memory_cache,
               seen |-> "miss", expires |-> 0]

\* A put that appends the new list to the list already stored for the key.
PutAppending(store, key, entry) ==
    [k \in DOMAIN store \cup {key} |->
        IF k # key THEN store[k]
        ELSE IF key \in DOMAIN store
             THEN [entry EXCEPT !.data = store[key].data \o @]
             ELSE entry]

\* A map with key set to entry.
Put(store, key, entry) ==
    [k \in DOMAIN store \cup {key} |-> IF k = key THEN entry ELSE store[k]]

\* search_web_mcps, lines 182 to 196: the cache lookup; a list that is
\* found and non-empty is returned at once, anything else goes on to the
\* scraper.
Start(c, query, limit) ==
    /\ calls[c].pc = "idle"
    /\ LET cached == get_cached_results(cache_key(query, limit))
           call   == [IdleCall EXCEPT !.query = query, !.limit = limit,
                         !.seen = cached.seen, !.seen_expires = cached.expires,
                         !.seen_data = cached.list]
       IN  /\ memory_cache' = cached.memory
           /\ calls' = [calls EXCEPT ![c] =
                  IF cached.found /\ Len(cached.list) > 0
                  THEN [call EXCEPT !.pc = "done", !.value = cached.list,
                                    !.outcome = "cached", !.returned = "list"]
                  ELSE [call EXCEPT !.pc = "scraping"]]
    /\ UNCHANGED <<corpus, cache_enabled, redis_client, now, ticks, scorer_input, scorer_output,
                   fn_input, fn_output, tasks, requests,
                   adapter_tasks, completed, search_cache, sessions, http_response>>

\* The call once the scraper has returned `scraped_mcps` ([raised, list]).
Scraped(call, scraped_mcps) ==
    IF scraped_mcps.raised
    THEN [call EXCEPT !.pc = "done", !.value = <<>>, !.outcome = "failed",
                      !.returned = "list", !.invoked = ScraperAdapters]
    ELSE [call EXCEPT !.pc = "api", !.invoked = ScraperAdapters,
                      !.results = List([i \in 1..Len(scraped_mcps.list) |->
                                            convert_scraped(scraped_mcps.list[i])])]

\* Lines 196 to 246: the scraper returns and its records are converted; an
\* exception of the scraper lands in the outer except, which returns [].
ScraperReturns(c) ==
    /\ calls[c].pc = "scraping"
    /\ calls' = [calls EXCEPT ![c] =
           Scraped(calls[c], scraper_search_web_mcps(fetch_file_content, corpus,
                                                    calls[c].query, calls[c].limit))]
    /\ UNCHANGED <<corpus, cache_enabled, redis_client, memory_cache, now, ticks,
                   scorer_input, scorer_output,
                   fn_input, fn_output, tasks, requests,
                   adapter_tasks, completed, search_cache, sessions, http_response>>

\* Lines 250 to 260, `results` being the merged list: it is deduplicated,
\* sorted and cut, and the final list is cached (_cache_results) and returned.
CacheAndReturn(c, results) ==
    /\ calls' = [calls EXCEPT ![c] =
           [@ EXCEPT !.pc = "done", !.results = results,
                     !.value = final_results(results, calls[c].limit),
                     !.outcome = "fresh", !.returned = "list",
                     !.invoked = @ \cup ApiAdapters]]
    /\ IF cache_enabled
       THEN /\ redis_client' =
                  Put(redis_client, cache_key(calls[c].query, calls[c].limit),
                      [data |-> calls'[c].value, expire_at |-> now + TTL])
            /\ UNCHANGED memory_cache
       ELSE /\ memory_cache' =
                  Put(memory_cache, cache_key(calls[c].query, calls[c].limit),
                      [data |-> calls'[c].value, expires |-> now + TTL])
            /\ UNCHANGED redis_client

\* Lines 246 to 260: the API sources return, the lists are merged,
\* deduplicated, sorted and cut, and the final list is cached and returned.
ApiReturns(c) ==
    /\ calls[c].pc = "api"
    /\ CacheAndReturn(c, calls[c].results \o search_api_sources(ApiCorpus, calls[c].limit \div 2))
    /\ UNCHANGED <<corpus, cache_enabled, now, ticks, scorer_input, scorer_output,
                   fn_input, fn_output, tasks, requests,
                   adapter_tasks, completed, search_cache, sessions, http_response>>

\* The caller takes the returned list.
Return(c) ==
    /\ calls[c].pc = "done"
    /\ calls' = [calls EXCEPT ![c] = IdleCall]
    /\ UNCHANGED <<corpus, cache_enabled, redis_client, memory_cache, now, ticks,
                   scorer_input, scorer_output,
                   fn_input, fn_output, tasks, requests,
                   adapter_tasks, completed, search_cache, sessions, http_response>>

\* Time passes.
Tick(d) ==
    /\ ticks < MaxTicks
    /\ now' = now + d
    /\ ticks' = ticks + 1
    /\ UNCHANGED <<corpus, cache_enabled, redis_client, memory_cache, calls,
                   scorer_input, scorer_output,
                   fn_input, fn_output, tasks, requests,
                   adapter_tasks, completed, search_cache, sessions, http_response>>

\* Two tools with parameters and long descriptions: the additions pass 1.0.
RichDoc ==
    JsonText("{\"name\":\"rich\",\"version\":\"1.0.0\",\"description\":\"rich tools\",\"tools\":[{\"name\":\"a\",\"description\":\"the first of the rich tools\",\"parameters\":{\"p\":\"string\"}},{\"name\":\"b\",\"description\":\"the second of the rich tools\",\"parameters\":{\"p\":\"string\"}}]}",
        Mapping(StrVal("rich"), StrVal("rich tools"), StrVal("1.0.0"), Absent,
            Tools(<< Tool(StrVal("a"), StrVal("the first of the rich tools"), Params(<<StrVal("p")>>)),
                     Tool(StrVal("b"), StrVal("the second of the rich tools"), Params(<<StrVal("p")>>)) >>)))

\* `tools: null`
NullToolsDoc ==
    JsonText("{\"name\":\"n\",\"tools\":null}",
        Mapping(StrVal("n"), Absent, Absent, Absent, NullTools))

\* A tool that is a bare string, and a tool whose description is null.
OddToolsDoc ==
    JsonText("{\"name\":\"o\",\"tools\":[{\"name\":\"a\",\"description\":null,\"parameters\":{\"p\":1}},\"b\"]}",
        Mapping(StrVal("o"), Absent, Absent, Absent,
            Tools(<< Tool(StrVal("a"), Null, Params(<<StrVal("p")>>)), NotATool >>)))

\* The document of scenario A.
ScenarioADoc ==
    JsonText("{\"name\":\"weather-tool\",\"version\":\"1.0.0\",\"tools\":[{\"name\":\"get_weather\",\"description\":\"Get the current weather for a city\",\"parameters\":{\"location\":\"string\"}}]}",
        Mapping(StrVal("weather-tool"), Absent, StrVal("1.0.0"), Absent,
            Tools(<< Tool(StrVal("get_weather"), StrVal("Get the current weather for a city"),
                          Params(<<StrVal("location")>>)) >>)))

\* The arguments the confidence scorers are tried on: a fetched text (the
\* explorer's scorer gets its parsed value), a code-search item, a URL and a
\* title.
ScorerDocs ==
    {WeatherDoc, XDoc, UpperXDoc, YamlDoc, HubDoc, EmptyToolsDoc, IntNameDoc,
     RichDoc, NullToolsDoc, OddToolsDoc, PlainText, BrokenText("{"), NoContent,
     ScenarioADoc}

ScorerItems ==
    { [name |-> name, repository |-> repository] :
        name \in {"x.mcp.json", "x.json"},
        repository \in {NoRepository, NullRepository,
                        Repository("o/a", Absent), Repository("o/a", Null),
                        Repository("o/a", StrVal("many")),
                        Repository("o/a", IntVal("5")), Repository("o/a", IntVal("50")),
                        Repository("o/a", IntVal("500"))} }

ScorerInputs ==
    { [content |-> content, item |-> item, url |-> url, title |-> title] :
        content \in ScorerDocs, item \in ScorerItems,
        url \in {GithubX, WebT}, title \in {"", "An MCP"} }

NoScorerInput ==
    [content |-> NoContent, item |-> [name |-> "", repository |-> NoRepository],
     url |-> "", title |-> ""]
NoScorerOutput == [fn |-> "none", raised |-> FALSE, score |-> F_0_0]

\* EnhancedMCPExplorer._calculate_confidence_score is called.
ApplyExplorerScorer ==
    /\ scorer_output.fn = "none"
    /\ LET out == explorer_calculate_confidence_score(SchemaOf(scorer_input.content),
                                                      scorer_input.item)
       IN  scorer_output' = [fn |-> "explorer", raised |-> out.raised, score |-> out.score]
    /\ UNCHANGED <<corpus, cache_enabled, redis_client, memory_cache, now, ticks, calls,
                   scorer_input, fn_input, fn_output, tasks, requests,
                   adapter_tasks, completed, search_cache, sessions, http_response>>

\* MCPWebScraper._calculate_confidence_score is called; nothing leaves its
\* try block.
ApplyScraperScorer ==
    /\ scorer_output.fn = "none"
    /\ scorer_output' =
           [fn |-> "scraper", raised |-> FALSE,
            score |-> scraper_calculate_confidence_score(scorer_input.content,
                          scorer_input.url, scorer_input.title, "")]
    /\ UNCHANGED <<corpus, cache_enabled, redis_client, memory_cache, now, ticks, calls,
                   scorer_input, fn_input, fn_output, tasks, requests,
                   adapter_tasks, completed, search_cache, sessions, http_response>>

\* A response of session.get(url): an HTTP status with a body that decodes
\* or not, or the exception the request ended with.
Response(status) == [kind |-> "response", status |-> status, decodes |-> TRUE]
Undecodable(status) == [kind |-> "response", status |-> status, decodes |-> FALSE]
Failure(exception) == [kind |-> exception, status |-> 0, decodes |-> FALSE]
NoResponse == Failure("none")

NoFnInput ==
    [content |-> NoContent, title |-> "", description |-> "", url |-> "",
     response |-> NoResponse]
NoFnOutput ==
    [fn |-> "none", raised |-> FALSE, accepted |-> FALSE, records |-> <<>>,
     content |-> NoContent, domain |-> Null, tags |-> {}]

\* A task that is not fetching.
\*   pc    "idle", "sleeping" (in asyncio.sleep(self.request_delay)) or "done"
\*   wake  when its sleep ends
IdleTask == [pc |-> "idle", wake |-> 0]
MaxTasks == 3
Tasks == 1..MaxTasks

\* No scorer, no helper and no fetching task is at work.
NoScorerAtWork == scorer_input = NoScorerInput /\ scorer_output = NoScorerOutput
NoHelperAtWork == fn_input = NoFnInput /\ fn_output = NoFnOutput
NoTaskAtWork == tasks = [t \in Tasks |-> IdleTask] /\ requests = <<>>

\* An adapter task that has not been started.
\*   pc       "idle", "running", "sleeping" (in the asyncio.sleep(60) that
\*            follows a 429) or "done"
\*   next     the index of the search URL it requests next
\*   issued   how many search requests it has issued
\*   replies  what its search requests were answered, a status or "raised"
\*   records  the list it returns
IdleAdapterTask ==
    [pc |-> "idle", next |-> 1, issued |-> 0, replies |-> <<>>, records |-> <<>>]

\* Every adapter with a list of search URLs of its own: the five of the
\* scraper, the three of EnhancedMCPExplorer and the GitHub adapter of
\* SmartMCPExplorer.
Adapters == ScraperAdapters \cup ApiAdapters \cup {"smart_github"}

\* No answer yet.
NoHttpResponse == [status |-> 0, detail |-> "", body |-> <<>>]

\* No adapter task is running and the service of main.py has served nothing.
NoGatherAtWork == adapter_tasks = [a \in Adapters |-> IdleAdapterTask] /\ completed = <<>>
NoServiceAtWork == search_cache = <<>> /\ sessions = <<>> /\ http_response = NoHttpResponse

Init ==
    /\ corpus \in Corpora
    /\ cache_enabled \in BOOLEAN
    /\ redis_client = <<>>
    /\ memory_cache = <<>>
    /\ now = 0
    /\ ticks = 0
    /\ calls = [c \in Calls |-> IdleCall]
    /\ NoScorerAtWork
    /\ NoHelperAtWork
    /\ NoTaskAtWork
    /\ NoGatherAtWork
    /\ NoServiceAtWork

Next ==
    \/ \E c \in Calls, query \in Queries, limit \in Limits : Start(c, query, limit)
    \/ \E c \in Calls : ScraperReturns(c)
    \/ \E c \in Calls : ApiReturns(c)
    \/ \E c \in Calls : Return(c)
    \/ \E d \in TickSteps : Tick(d)

Spec == Init /\ [][Next]_vars

\* The confidence scorers alone, applied to every input of ScorerInputs.
ScorerInit ==
    /\ corpus = CHOOSE c \in Corpora : \A p \in 1..Len(c.github) : c.github[p] = Down
    /\ cache_enabled = FALSE
    /\ redis_client = <<>>
    /\ memory_cache = <<>>
    /\ now = 0
    /\ ticks = 0
    /\ calls = [c \in Calls |-> IdleCall]
    /\ scorer_input \in ScorerInputs
    /\ scorer_output = NoScorerOutput
    /\ NoHelperAtWork
    /\ NoTaskAtWork
    /\ NoGatherAtWork
    /\ NoServiceAtWork

ScorerNext == ApplyExplorerScorer \/ ApplyScraperScorer

ScorerSpec == ScorerInit /\ [][ScorerNext]_vars

(***************************************************************************)
(* The scraper's helpers alone: the fetcher, the classifier and the        *)
(* metadata extractors, applied to every input of HelperInputs.            *)
(***************************************************************************)

\* data['tags'] as written in a document: a list of strings, or null.
TagList(items) == [k |-> "list", items |-> items]
NullTagList == [k |-> "null", items |-> <<>>]
NoTagList == [k |-> "absent", items |-> <<>>]

\* The document `content` with a `tags` key.
WithTags(content, tags) == [content EXCEPT !.data = [tags |-> tags] @@ @]

\* data['tags'] when 'tags' in data.
TagsOf(data) == IF "tags" \in DOMAIN data THEN data.tags ELSE NoTagList

\* A text json.loads reads as a list.
ListText(text) ==
    [text |-> text, json |-> TRUE, yaml |-> TRUE, kind |-> "list", data |-> EmptyMapping]

\* A name and a description, no `tools` key.
NoToolsDoc ==
    JsonText("{\"name\":\"n\",\"description\":\"no tools here\"}",
        Mapping(StrVal("n"), StrVal("no tools here"), Absent, Absent, NoTools))

\* Keywords of three domains: stock (finance), forecast (weather), email
\* (productivity, and `ai` inside it).
ManyDomainsDoc ==
    JsonText("{\"name\":\"stock-forecast\",\"description\":\"email the stock forecast\",\"tools\":[{\"name\":\"send_email\",\"description\":\"Send it\"}]}",
        Mapping(StrVal("stock-forecast"), StrVal("email the stock forecast"), Absent, Absent,
            Tools(<< Tool(StrVal("send_email"), StrVal("Send it"), NoParams) >>)))

\* Keywords of two domains and a `domain` key of its own.
OwnDomainDoc ==
    JsonText("{\"name\":\"hotel-chat\",\"description\":\"chat with a hotel\",\"domain\":\"hospitality\",\"tools\":[]}",
        Mapping(StrVal("hotel-chat"), StrVal("chat with a hotel"), Absent,
            StrVal("hospitality"), Tools(<<>>)))

\* A document the classifier accepts, with a `domain` key of its own whose
\* value is no key of the keyword tables.
ForeignDomainDoc ==
    JsonText("{\"name\":\"inn\",\"description\":\"rooms of an inn\",\"domain\":\"hospitality\",\"tools\":[{\"name\":\"find_room\",\"description\":\"Find a room\"}]}",
        Mapping(StrVal("inn"), StrVal("rooms of an inn"), Absent, StrVal("hospitality"),
            Tools(<< Tool(StrVal("find_room"), StrVal("Find a room"), NoParams) >>)))

\* Explicit tags, one of them also a pattern tag, and tools that share a
\* first token; one tool has no name.
TaggedDoc ==
    WithTags(
        JsonText("{\"name\":\"sync-api\",\"tags\":[\"api\",\"custom\"],\"tools\":[{\"name\":\"Get_Weather\",\"description\":\"a\"},{\"name\":\"get_forecast\",\"description\":\"b\"},{\"name\":\"list\",\"description\":\"c\"},{\"description\":\"d\"}]}",
            Mapping(StrVal("sync-api"), Absent, Absent, Absent,
                Tools(<< Tool(StrVal("Get_Weather"), StrVal("a"), NoParams),
                         Tool(StrVal("get_forecast"), StrVal("b"), NoParams),
                         Tool(StrVal("list"), StrVal("c"), NoParams),
                         Tool(Absent, StrVal("d"), NoParams) >>))),
        TagList(<<"api", "custom">>))

\* `tags: null` beside a tool.
NullTagsDoc ==
    WithTags(
        JsonText("{\"name\":\"rest\",\"tags\":null,\"tools\":[{\"name\":\"get_it\",\"description\":\"a\"}]}",
            Mapping(StrVal("rest"), Absent, Absent, Absent,
                Tools(<< Tool(StrVal("get_it"), StrVal("a"), NoParams) >>))),
        NullTagList)

\* Explicit tags, then a tool whose name is a number between two named tools.
IntToolNameDoc ==
    WithTags(
        JsonText("{\"name\":\"live-log\",\"tags\":[\"custom\"],\"tools\":[{\"name\":\"get_it\",\"description\":\"a\"},{\"name\":7,\"description\":\"b\"},{\"name\":\"put_it\",\"description\":\"c\"}]}",
            Mapping(StrVal("live-log"), Absent, Absent, Absent,
                Tools(<< Tool(StrVal("get_it"), StrVal("a"), NoParams),
                         Tool(IntVal("7"), StrVal("b"), NoParams),
                         Tool(StrVal("put_it"), StrVal("c"), NoParams) >>))),
        TagList(<<"custom">>))

HelperDocs ==
    {WeatherDoc, XDoc, UpperXDoc, YamlDoc, HubDoc, EmptyToolsDoc, IntNameDoc,
     RichDoc, NullToolsDoc, OddToolsDoc, PlainText, BrokenText("{"), NoContent,
     ListText("[1, 2]"), ScenarioADoc, NoToolsDoc, ManyDomainsDoc, OwnDomainDoc,
     TaggedDoc, NullTagsDoc, IntToolNameDoc, ForeignDomainDoc}

\* What a request can end with.
Responses ==
    {Response(200), Response(201), Response(204), Response(301), Response(404),
     Response(429), Response(503), Undecodable(200),
     Failure("ClientConnectionError"), Failure("TimeoutError")}

\* The arguments the helpers are tried on: a text, the listing's title and
\* description, the URL the text is at and what the request for it ends with.
HelperInputs ==
    { [content |-> content, title |-> title, description |-> description,
       url |-> url, response |-> response] :
        content \in HelperDocs, title \in {"", "A REST browser"},
        description \in {"", "Encrypt the stream"}, url \in {WebT},
        response \in Responses }

\* A fetcher that takes every response that is not an error status for a
\* success.
response_content_below_400(response, body) ==
    [raised |-> FALSE,
     content |-> IF response.kind = "response" /\ response.status < 400 /\ response.decodes
                 THEN body ELSE NoContent]

\* MCPWebScraper._fetch_file_content on what the request for `body` ends
\* with: the text when the status is 200 and the body decodes, None
\* (NoContent) otherwise; `except Exception` lets no failure of the request
\* or of response.text() out.
response_content(response, body) ==
    [raised |-> FALSE,
     content |-> IF /\ response.kind = "response"
                    /\ response.status = 200
                    /\ response.decodes
                 THEN body ELSE NoContent]

\* The tag_patterns table of MCPWebScraper._extract_tags_from_content.
scraper_tag_patterns ==
    << [tag |-> "api",         patterns |-> <<"api", "rest", "endpoint">>],
       [tag |-> "web",         patterns |-> <<"web", "http", "url", "browser">>],
       [tag |-> "database",    patterns |-> <<"db", "database", "sql">>],
       [tag |-> "cloud",       patterns |-> <<"aws", "azure", "gcp", "cloud">>],
       [tag |-> "automation",  patterns |-> <<"auto", "script", "workflow">>],
       [tag |-> "integration", patterns |-> <<"integrate", "connect", "sync">>],
       [tag |-> "realtime",    patterns |-> <<"realtime", "live", "stream">>],
       [tag |-> "security",    patterns |-> <<"auth", "security", "encrypt">>],
       [tag |-> "monitoring",  patterns |-> <<"monitor", "log", "metric">>] >>

\* for tag, patterns in tag_patterns.items(): if any(pattern in text ...): tags.add(tag)
PatternTags(text) ==
    { scraper_tag_patterns[i].tag :
        i \in { r \in 1..Len(scraper_tag_patterns) :
                  \E k \in 1..Len(scraper_tag_patterns[r].patterns) :
                      Contains(text, scraper_tag_patterns[r].patterns[k]) } }

\* A token that is the whole tool name.
WholeName(s) == s

\* tool_name.split('_')[0]
FirstToken(s) ==
    IF \E i \in 1..Len(s) : SubSeq(s, i, i) = "_"
    THEN SubSeq(s, 1, (CHOOSE i \in 1..Len(s) :
                          /\ SubSeq(s, i, i) = "_"
                          /\ \A j \in 1..(i - 1) : SubSeq(s, j, j) # "_") - 1)
    ELSE s

RECURSIVE ToolTags(_, _, _)
\* The `for tool in data.get('tools', [])` loop of the tag extractor from
\* tool i on: [tags, raised], raised when tool.get of a tool that is no
\* mapping or .lower() of a name that is no string raises.  A tool without
\* a name adds the empty token.
ToolTags(items, i, tags) ==
    IF i > Len(items) THEN [tags |-> tags, raised |-> FALSE]
    ELSE IF ~items[i].isDict \/ items[i].name.k \notin {"str", "absent"}
         THEN [tags |-> tags, raised |-> TRUE]
         ELSE ToolTags(items, i + 1, tags \cup {FirstToken(Lower(items[i].name.v))})

\* tags.update(data['tags']) on an empty set.
ExplicitTags(data) ==
    {TagsOf(data).items[i] : i \in 1..Len(TagsOf(data).items)}

\* The pattern tags join the tags the loop left, unless the loop raised.
WithPatternTags(t, text) ==
    IF t.raised THEN t.tags ELSE t.tags \cup PatternTags(text)

\* MCPWebScraper._extract_tags_from_content: `except Exception: pass` keeps
\* the tags gathered before the step that raised (a text no parser reads, a
\* value that is no mapping, `tags: null`, `tools: null`, a tool that is no
\* mapping, a tool name that is no string).
extract_tags_from_content(content, title, description) ==
    IF LoadJsonThenYaml(content) # "ok" \/ content.kind # "dict" THEN {}
    ELSE IF TagsOf(content.data).k = "null" THEN {}
    ELSE IF content.data.tools.k = "null" THEN ExplicitTags(content.data)
    ELSE WithPatternTags(
             ToolTags(content.data.tools.items, 1, ExplicitTags(content.data)),
             Lower(title \o " " \o description \o " " \o Format(content.data.name)
                   \o " " \o Format(content.data.description)))

\* A helper is called on fn_input and leaves `out`.
HelperDoes(out) ==
    /\ fn_output.fn = "none"
    /\ fn_output' = out
    /\ UNCHANGED <<corpus, cache_enabled, redis_client, memory_cache, now, ticks, calls,
                   scorer_input, scorer_output, fn_input, tasks, requests,
                   adapter_tasks, completed, search_cache, sessions, http_response>>

\* MCPWebScraper._fetch_file_content is called.
ApplyFetch ==
    HelperDoes([NoFnOutput EXCEPT
        !.fn = "fetch",
        !.raised = response_content(fn_input.response, fn_input.content).raised,
        !.content = response_content(fn_input.response, fn_input.content).content])

\* MCPWebScraper._is_valid_mcp_content is called; its outer except returns
\* False for anything that raises.
ApplyClassifier ==
    HelperDoes([NoFnOutput EXCEPT
        !.fn = "classify",
        !.accepted = is_valid_mcp_content(fn_input.content)])

\* MCPWebScraper._fetch_and_validate_mcp is called on the URL, which answers
\* with fn_input.response.
ApplyFetchAndValidate ==
    HelperDoes([NoFnOutput EXCEPT
        !.fn = "fetch_and_validate",
        !.records = fetch_and_validate_mcp(
            [u \in {fn_input.url} |->
                response_content(fn_input.response, fn_input.content).content],
            fn_input.url, fn_input.title)])

\* MCPWebScraper._extract_domain_from_content is called.
ApplyScraperDomain ==
    HelperDoes([NoFnOutput EXCEPT
        !.fn = "scraper_domain",
        !.domain = extract_domain_from_content(fn_input.content)])

\* EnhancedMCPExplorer._extract_domain is called on the document's name and
\* description.
ApplyExplorerDomain ==
    HelperDoes([NoFnOutput EXCEPT
        !.fn = "explorer_domain",
        !.domain = StrVal(extract_domain(Format(fn_input.content.data.name),
                                         Format(fn_input.content.data.description)))])

\* MCPWebScraper._extract_tags_from_content is called.
ApplyTags ==
    HelperDoes([NoFnOutput EXCEPT
        !.fn = "tags",
        !.tags = extract_tags_from_content(fn_input.content, fn_input.title,
                                           fn_input.description)])

\* A corpus none of whose pages answers.
QuietCorpus == CHOOSE c \in Corpora : \A p \in 1..Len(c.github) : c.github[p] = Down

\* No search is under way and nothing is cached.
NoSearchAtWork ==
    /\ corpus = QuietCorpus
    /\ cache_enabled = FALSE
    /\ redis_client = <<>>
    /\ memory_cache = <<>>
    /\ now = 0
    /\ ticks = 0
    /\ calls = [c \in Calls |-> IdleCall]

ContentInit ==
    /\ NoSearchAtWork
    /\ NoScorerAtWork
    /\ fn_input \in HelperInputs
    /\ fn_output = NoFnOutput
    /\ NoTaskAtWork
    /\ NoGatherAtWork
    /\ NoServiceAtWork

ContentNext ==
    \/ ApplyFetch
    \/ ApplyClassifier
    \/ ApplyFetchAndValidate
    \/ ApplyScraperDomain
    \/ ApplyExplorerDomain
    \/ ApplyTags

ContentSpec == ContentInit /\ [][ContentNext]_vars

(***************************************************************************)
(* The caller of search_web_mcps changes a record of the list it was       *)
(* handed.  _cache_results stores [result.__dict__ for result in results]  *)
(* in memory_cache: the attribute dictionaries of the returned records     *)
(* themselves.  _get_cached_results builds new records from the stored     *)
(* dictionaries (one MCPSearchResult per item), which share the nested     *)
(* `schema` dictionary with them.  With Redis the list goes through        *)
(* json.dumps and json.loads and shares nothing.                           *)
(***************************************************************************)

Edited == StrVal("edited")

\* result.description = 'edited'
EditAttribute(result) == [result EXCEPT !.description = Edited]
\* result.schema['name'] = 'edited'
EditNested(result) == [result EXCEPT !.schema.data.name = Edited]

Edit(how, result) ==
    IF how = "attribute" THEN EditAttribute(result) ELSE EditNested(result)

IsEdited(result) ==
    \/ result.description = Edited
    \/ result.schema.kind = "dict" /\ result.schema.data.name = Edited

\* The object the caller of call c changes is also held by the cache entry
\* of the call's key: the record's own __dict__ after a fresh aggregation,
\* the record's schema dictionary after a fresh aggregation or a cache hit.
SharedWithCache(c, how) ==
    /\ ~cache_enabled
    /\ cache_key(calls[c].query, calls[c].limit) \in DOMAIN memory_cache
    /\ \/ calls[c].outcome = "fresh"
       \/ calls[c].outcome = "cached" /\ how = "nested"

\* The caller changes record i of the list call c returned, once per list.
Mutate(c, i, how) ==
    /\ calls[c].pc = "done"
    /\ i \in 1..Len(calls[c].value)
    /\ \A j \in 1..Len(calls[c].value) : ~IsEdited(calls[c].value[j])
    /\ how = "nested" => calls[c].value[i].schema.kind = "dict"
    /\ calls' = [calls EXCEPT ![c].value[i] = Edit(how, @)]
    /\ memory_cache' =
           IF SharedWithCache(c, how)
           THEN [memory_cache EXCEPT
                    ![cache_key(calls[c].query, calls[c].limit)].data[i] = Edit(how, @)]
           ELSE memory_cache
    /\ UNCHANGED <<corpus, cache_enabled, redis_client, now, ticks,
                   scorer_input, scorer_output, fn_input, fn_output, tasks, requests,
                   adapter_tasks, completed, search_cache, sessions, http_response>>

\* The one caller whose lists are followed.
Caller == CHOOSE c \in Calls : \A d \in Calls : c <= d

\* Corpora in which GitHub and GitLab answer and every record is ranked.
MutationCorpora ==
    { c \in Corpora :
        /\ c.github \in { <<Page(<<EntryWeather, EntryX>>), Page(<<EntryX>>), Down, Page(<<>>)>>,
                          <<Page(<<EntryX>>), Down, Down, Page(<<EntryRepo>>)>> }
        /\ c.hub = <<Down>>
        /\ c.awesome = <<Down, Down, Down, Down>>
        /\ c.web = <<Down, Down, Down>> }

MutationInit ==
    /\ corpus \in MutationCorpora
    /\ cache_enabled \in BOOLEAN
    /\ redis_client = <<>>
    /\ memory_cache = <<>>
    /\ now = 0
    /\ ticks = 0
    /\ calls = [c \in Calls |-> IdleCall]
    /\ NoScorerAtWork
    /\ NoHelperAtWork
    /\ NoTaskAtWork
    /\ NoGatherAtWork
    /\ NoServiceAtWork

MutationNext ==
    \/ \E query \in Queries, limit \in Limits : Start(Caller, query, limit)
    \/ ScraperReturns(Caller)
    \/ ApiReturns(Caller)
    \/ Return(Caller)
    \/ \E d \in TickSteps : Tick(d)
    \/ \E i \in 1..MaxLimit, how \in {"attribute", "nested"} : Mutate(Caller, i, how)

MutationSpec == MutationInit /\ [][MutationNext]_vars

(***************************************************************************)
(* The source adapters alone, each applied to every corpus of              *)
(* AdapterCorpora with limit MaxLimit; fn_output.records is the list the   *)
(* adapter returned.  Each adapter catches every exception of a search     *)
(* request inside its own try block and returns the list gathered so far.  *)
(***************************************************************************)

\* A search URL that answers with an error status and a body from which the
\* page's selector would yield `items`.
ErrorPage(status, items) == [status |-> status, items |-> items]

\* Every search URL of every adapter answers `status`, with a body that
\* lists entries when `listing` holds.
FailingCorpus(status, listing) ==
    [github  |-> [p \in 1..4 |->
                     ErrorPage(status, IF listing THEN <<EntryWeather, EntryX>> ELSE <<>>)],
     gitlab  |-> << ErrorPage(status, IF listing THEN <<EntryGitlabX>> ELSE <<>>) >>,
     hub     |-> << ErrorPage(status, IF listing THEN <<EntryHub>> ELSE <<>>) >>,
     awesome |-> [p \in 1..4 |->
                     ErrorPage(status, IF listing THEN <<Entry("x mcp", GithubX, "", <<>>)>>
                                       ELSE <<>>)],
     web     |-> [p \in 1..3 |->
                     ErrorPage(status, IF listing THEN <<Entry("", WebT, "", <<>>)>>
                                       ELSE <<>>)]]

AdapterCorpora ==
    Corpora \cup { FailingCorpus(status, listing) :
                     status \in {301, 404, 429, 503}, listing \in BOOLEAN }

\* Adapter `name` is called and returns `records`.
AdapterReturns(name, records) ==
    HelperDoes([NoFnOutput EXCEPT !.fn = name, !.records = records])

ApplySearchGithub ==
    AdapterReturns("github", search_github(fetch_file_content, corpus.github, MaxLimit))
ApplySearchGitlab ==
    AdapterReturns("gitlab", search_gitlab(fetch_file_content, corpus.gitlab, MaxLimit))
ApplySearchHuggingface ==
    AdapterReturns("huggingface", search_huggingface(fetch_file_content, corpus.hub, MaxLimit))
ApplySearchAwesomeLists ==
    AdapterReturns("awesome_lists", search_awesome_lists(fetch_file_content, corpus.awesome, MaxLimit))
ApplySearchGeneralWeb ==
    AdapterReturns("general_web", search_general_web(fetch_file_content, corpus.web, MaxLimit))
ApplySearchGithubEnhanced ==
    AdapterReturns("github_enhanced", search_github_enhanced(ApiCorpus, MaxLimit))
ApplyExplorerSearchHuggingface ==
    AdapterReturns("explorer_huggingface", explorer_search_huggingface(ApiCorpus, MaxLimit))
ApplySearchKnownRepositories ==
    AdapterReturns("known_repositories", search_known_repositories(ApiCorpus, MaxLimit))

AdapterInit ==
    /\ corpus \in AdapterCorpora
    /\ cache_enabled = FALSE
    /\ redis_client = <<>>
    /\ memory_cache = <<>>
    /\ now = 0
    /\ ticks = 0
    /\ calls = [c \in Calls |-> IdleCall]
    /\ NoScorerAtWork
    /\ NoHelperAtWork
    /\ NoTaskAtWork
    /\ NoGatherAtWork
    /\ NoServiceAtWork

AdapterNext ==
    \/ ApplySearchGithub
    \/ ApplySearchGitlab
    \/ ApplySearchHuggingface
    \/ ApplySearchAwesomeLists
    \/ ApplySearchGeneralWeb
    \/ ApplySearchGithubEnhanced
    \/ ApplyExplorerSearchHuggingface
    \/ ApplySearchKnownRepositories

AdapterSpec == AdapterInit /\ [][AdapterNext]_vars

(***************************************************************************)
(* Outbound requests of one MCPWebScraper.  The adapter coroutines that    *)
(* asyncio.gather runs, of one search call or of several, are the tasks;   *)
(* before each session.get a task awaits                                   *)
(* asyncio.sleep(self.request_delay), or twice that before a search-engine *)
(* request.  The scraper holds no lock, semaphore or time of the last      *)
(* request: each sleep is the task's own.                                  *)
(***************************************************************************)

\* self.request_delay = 1.0, in seconds.
request_delay == 1

\* How many requests one task issues at most.
MaxRequests == 2

\* The requests task t has issued.
RequestsOf(t) == SelectSeq(requests, LAMBDA r : r.task = t)

\* await asyncio.sleep(self.request_delay * k): task t goes to sleep.
TaskSleeps(t, k) ==
    /\ tasks[t].pc = "idle"
    /\ Len(RequestsOf(t)) < MaxRequests
    /\ tasks' = [tasks EXCEPT ![t] = [pc |-> "sleeping", wake |-> now + request_delay * k]]
    /\ UNCHANGED <<corpus, cache_enabled, redis_client, memory_cache, now, ticks, calls,
                   scorer_input, scorer_output, fn_input, fn_output, requests,
                   adapter_tasks, completed, search_cache, sessions, http_response>>

\* session.get(url): task t, its sleep over, issues its request.
TaskRequests(t) ==
    /\ tasks[t].pc = "sleeping"
    /\ now >= tasks[t].wake
    /\ requests' = Append(requests, [task |-> t, at |-> now])
    /\ tasks' = [tasks EXCEPT ![t] = IdleTask]
    /\ UNCHANGED <<corpus, cache_enabled, redis_client, memory_cache, now, ticks, calls,
                   scorer_input, scorer_output, fn_input, fn_output,
                   adapter_tasks, completed, search_cache, sessions, http_response>>

LimiterInit ==
    /\ NoSearchAtWork
    /\ NoScorerAtWork
    /\ NoHelperAtWork
    /\ NoTaskAtWork
    /\ NoGatherAtWork
    /\ NoServiceAtWork

LimiterNext ==
    \/ \E t \in Tasks, k \in {1, 2} : TaskSleeps(t, k)
    \/ \E t \in Tasks : TaskRequests(t)
    \/ Tick(request_delay)

LimiterSpec == LimiterInit /\ [][LimiterNext]_vars

(***************************************************************************)
(* Concurrent calls of search_web_mcps on one explorer, while the remote   *)
(* pages change.  A call runs without interruption between two awaits      *)
(* that suspend it: from the cache lookup to the scraper call, from the    *)
(* scraper's return to the API sources, and from their return through      *)
(* _cache_results (which awaits nothing) to the return.                    *)
(***************************************************************************)

MaxSearchers == 2
Searchers == 1..MaxSearchers

\* What the remote pages answer, before and after they change.
ConcurrentCorpora ==
    { c \in Corpora :
        /\ c.github = <<Page(<<EntryWeather, EntryX>>), Page(<<EntryX>>), Down, Page(<<>>)>>
        /\ c.hub = <<Down>>
        /\ c.awesome = <<Down, Down, Down, Down>>
        /\ c.web = <<Down, Down, Down>> }

\* The remote pages change.
CorpusChanges ==
    /\ corpus' \in ConcurrentCorpora \ {corpus}
    /\ UNCHANGED <<cache_enabled, redis_client, memory_cache, now, ticks, calls,
                   scorer_input, scorer_output, fn_input, fn_output, tasks, requests,
                   adapter_tasks, completed, search_cache, sessions, http_response>>

ConcurrentInit ==
    /\ corpus \in ConcurrentCorpora
    /\ cache_enabled \in BOOLEAN
    /\ redis_client = <<>>
    /\ memory_cache = <<>>
    /\ now = 0
    /\ ticks = 0
    /\ calls = [c \in Searchers |-> IdleCall]
    /\ NoScorerAtWork
    /\ NoHelperAtWork
    /\ NoTaskAtWork
    /\ NoGatherAtWork
    /\ NoServiceAtWork

ConcurrentNext ==
    \/ \E c \in Searchers, query \in Queries : Start(c, query, MaxLimit)
    \/ \E c \in Searchers : ScraperReturns(c)
    \/ \E c \in Searchers : ApiReturns(c)
    \/ \E c \in Searchers : Return(c)
    \/ Tick(1)
    \/ CorpusChanges

ConcurrentSpec == ConcurrentInit /\ [][ConcurrentNext]_vars

(***************************************************************************)
(* The scraper's re-ranking pass alone: _rank_results applied to the       *)
(* deduplicated list of every corpus, for every query of RankQueries.      *)
(***************************************************************************)

\* Queries that occur in names, in descriptions, in both and in neither.
RankQueries == {"x", "TOOL", "weather", "zebra"}

\* unique_results of MCPWebScraper.search_web_mcps for a corpus, the
\* argument of _rank_results.
unique_results(remote) ==
    scraper_deduplicate_results(Flatten(search_tasks(fetch_file_content, remote, 2 * MaxLimit)))

\* MCPWebScraper._rank_results is called.
ApplyRank ==
    HelperDoes([NoFnOutput EXCEPT
        !.fn = "rank",
        !.raised = rank_results(fn_input.results, fn_input.query).raised,
        !.records = rank_results(fn_input.results, fn_input.query).list])

RankInit ==
    /\ corpus \in Corpora
    /\ cache_enabled = FALSE
    /\ redis_client = <<>>
    /\ memory_cache = <<>>
    /\ now = 0
    /\ ticks = 0
    /\ calls = [c \in Calls |-> IdleCall]
    /\ NoScorerAtWork
    /\ \E query \in RankQueries :
           fn_input = [results |-> unique_results(corpus), query |-> query]
    /\ fn_output = NoFnOutput
    /\ NoTaskAtWork
    /\ NoGatherAtWork
    /\ NoServiceAtWork

RankNext == ApplyRank

RankSpec == RankInit /\ [][RankNext]_vars

(***************************************************************************)
(* The search-listing loop of an adapter, one request at a time.  Every    *)
(* adapter walks a fixed list of search URLs (search queries) with a `for` *)
(* loop; what a request is answered decides what the loop does next.       *)
(***************************************************************************)

\* What a search request can be answered.
ListingReplies ==
    {Response(200), Response(403), Response(429), Response(503), Failure("TimeoutError")}

\* session.get raised before anything was sent.
RaisedBeforeSending == Failure("TypeError")

\* The length of the list the adapter's loop walks: search_urls (scraper
\* GitHub, the Hugging Face API), the one search_url of GitLab and Hugging
\* Face, awesome_urls, search_engines, search_queries[:3],
\* self.known_sources and, in SmartMCPExplorer, search_queries[:2].
search_urls ==
    [a \in Adapters |->
        CASE a = "github"             -> 4
          [] a = "gitlab"             -> 1
          [] a = "huggingface"        -> 1
          [] a = "awesome_lists"      -> 4
          [] a = "general_web"        -> 3
          [] a = "github_enhanced"    -> 3
          [] a = "huggingface_api"    -> 2
          [] a = "known_repositories" -> 3
          [] a = "smart_github"       -> 2]

\* A loop that goes on to its next search query after a 403.
goes_on_after_403(a, task, reply) ==
    [task EXCEPT !.next = @ + 1, !.issued = @ + 1, !.replies = Append(@, reply)]

\* One turn of the loop of EnhancedMCPExplorer._search_github_enhanced had
\* the request been sent: `break` on a 403, the next query otherwise.
stops_at_403(a, task, reply) ==
    [task EXCEPT !.next = IF reply = Response(403) THEN search_urls[a] + 1 ELSE @ + 1,
                 !.issued = @ + 1,
                 !.replies = Append(@, reply)]

\* A loop that, after the sleep that follows a 429, requests the same
\* search URL again.
retries_after_429(a, task, reply) ==
    IF a = "github" /\ reply = Response(429)
    THEN [task EXCEPT !.pc = "sleeping"]
    ELSE goes_on_after_403(a, task, reply)

\* One turn of the adapter's loop, the request being answered `reply`.
\* The adapters of EnhancedMCPExplorer never send the request: `async with`
\* on the coroutine of RateLimitedSession.get raises, the except of the
\* loop goes on to the next query.  The scraper's GitHub adapter sleeps 60 s
\* after a 429 before it goes on; SmartMCPExplorer._search_github has no
\* branch for a 403.
after_reply(a, task, reply) ==
    IF a \in ApiAdapters
    THEN IF AsyncWithRaises(RateLimitedSession_get)
         THEN [task EXCEPT !.next = @ + 1, !.replies = Append(@, RaisedBeforeSending)]
         ELSE IF a = "github_enhanced" THEN stops_at_403(a, task, reply)
         ELSE goes_on_after_403(a, task, reply)
    ELSE IF a = "github" /\ reply = Response(429)
    THEN [task EXCEPT !.pc = "sleeping", !.next = @ + 1, !.issued = @ + 1,
                      !.replies = Append(@, reply)]
    ELSE goes_on_after_403(a, task, reply)

\* The adapter coroutine is started.
AdapterStarts(a) ==
    /\ \A b \in Adapters : adapter_tasks[b].pc = "idle"
    /\ adapter_tasks' = [adapter_tasks EXCEPT ![a].pc = "running"]
    /\ UNCHANGED <<corpus, cache_enabled, redis_client, memory_cache, now, ticks, calls,
                   scorer_input, scorer_output, fn_input, fn_output, tasks, requests,
                   completed, search_cache, sessions, http_response>>

\* The adapter requests its next search URL and handles the reply.
SearchRequest(a, reply) ==
    /\ adapter_tasks[a].pc = "running"
    /\ adapter_tasks[a].next <= search_urls[a]
    /\ adapter_tasks' = [adapter_tasks EXCEPT ![a] = after_reply(a, @, reply)]
    /\ UNCHANGED <<corpus, cache_enabled, redis_client, memory_cache, now, ticks, calls,
                   scorer_input, scorer_output, fn_input, fn_output, tasks, requests,
                   completed, search_cache, sessions, http_response>>

\* The asyncio.sleep(60) after a 429 is over.
SleepEnds(a) ==
    /\ adapter_tasks[a].pc = "sleeping"
    /\ adapter_tasks' = [adapter_tasks EXCEPT ![a].pc = "running"]
    /\ UNCHANGED <<corpus, cache_enabled, redis_client, memory_cache, now, ticks, calls,
                   scorer_input, scorer_output, fn_input, fn_output, tasks, requests,
                   completed, search_cache, sessions, http_response>>

\* The loop is over and the adapter returns `records`.
AdapterCompletes(a, records) ==
    /\ adapter_tasks[a].pc = "running"
    /\ adapter_tasks[a].next > search_urls[a]
    /\ adapter_tasks' = [adapter_tasks EXCEPT ![a].pc = "done", ![a].records = records]
    /\ completed' = Append(completed, a)
    /\ UNCHANGED <<corpus, cache_enabled, redis_client, memory_cache, now, ticks, calls,
                   scorer_input, scorer_output, fn_input, fn_output, tasks, requests,
                   search_cache, sessions, http_response>>

ListingInit ==
    /\ NoSearchAtWork
    /\ NoScorerAtWork
    /\ NoHelperAtWork
    /\ NoTaskAtWork
    /\ NoGatherAtWork
    /\ NoServiceAtWork

ListingNext ==
    \/ \E a \in Adapters : AdapterStarts(a)
    \/ \E a \in Adapters, reply \in ListingReplies : SearchRequest(a, reply)
    \/ \E a \in Adapters : SleepEnds(a)
    \/ \E a \in Adapters : AdapterCompletes(a, <<>>)

ListingSpec == ListingInit /\ [][ListingNext]_vars

(***************************************************************************)
(* One search at the grain of its adapter tasks.  asyncio.gather runs the  *)
(* five adapters of the scraper concurrently: their search requests        *)
(* interleave in any order and they complete in any order.  When all have  *)
(* completed the scraper merges their lists; the explorer then runs its    *)
(* own three adapters the same way.  A search URL answers what the corpus  *)
(* says.                                                                   *)
(***************************************************************************)

\* The awaitables handed to the two gathers, in the order of search_tasks.
scraper_awaitables == <<"github", "gitlab", "huggingface", "awesome_lists", "general_web">>
api_awaitables == <<"github_enhanced", "huggingface_api", "known_repositories">>

\* A gather that hands the results over in the order the tasks completed.
gather_as_completed(awaitables, finished, results) ==
    List([i \in 1..Len(finished) |-> results[finished[i]].records])

\* asyncio.gather: the results in the order of the awaitables, whatever
\* the order `finished` the tasks completed in.
gather(awaitables, finished, results) ==
    List([i \in 1..Len(awaitables) |-> results[awaitables[i]].records])

\* The search pages of an adapter.
pages_of(remote, a) ==
    CASE a = "github"             -> remote.github
      [] a = "gitlab"             -> remote.gitlab
      [] a = "huggingface"        -> remote.hub
      [] a = "awesome_lists"      -> remote.awesome
      [] a = "general_web"        -> remote.web
      [] a = "github_enhanced"    -> ApiCorpus.github
      [] a = "huggingface_api"    -> ApiCorpus.hub
      [] a = "known_repositories" -> ApiCorpus.known

\* What the adapter's k-th search URL answers.
reply_of(remote, a, k) == Response(pages_of(remote, a)[k].status)

\* The list a scraper adapter returns for the corpus.
adapter_records(remote, a, max_results) ==
    search_tasks(fetch_file_content, remote, max_results)[
        CHOOSE i \in 1..Len(scraper_awaitables) : scraper_awaitables[i] = a]

\* Search pages that answer with rate-limit replies between listings.
ThrottledCorpus ==
    [github  |-> << Page(<<EntryWeather, EntryX>>), ErrorPage(429, <<>>),
                    ErrorPage(403, <<>>), Page(<<EntryX>>) >>,
     gitlab  |-> << Page(<<EntryGitlabX>>) >>,
     hub     |-> << ErrorPage(429, <<>>) >>,
     awesome |-> << ErrorPage(403, <<>>), Page(<<Entry("y", RawUrl(GitlabY), "", <<>>)>>),
                    Down, Down >>,
     web     |-> << Down, ErrorPage(429, <<>>), Down >>]

\* Every adapter finds something, and some files are found by two adapters.
SharedCorpus ==
    [github  |-> << Page(<<EntryWeather, EntryX>>), Page(<<EntryX>>), Down, Page(<<>>) >>,
     gitlab  |-> << Page(<<EntryGitlabY>>) >>,
     hub     |-> << Page(<<EntryHub>>) >>,
     awesome |-> << Page(<<Entry("x mcp", GithubX, "", <<>>)>>),
                    Page(<<Entry("y", RawUrl(GitlabY), "", <<>>)>>),
                    Page(<<Entry("w", GithubWeather, "", <<>>)>>), Down >>,
     web     |-> << Page(<<Entry("", WebT, "", <<>>), Entry("", WebPlain, "", <<>>)>>),
                    Down, Down >>]

\* A listing entry without a description: the ranking raises.
BareCorpus == [SharedCorpus EXCEPT !.github = << Page(<<EntryBare, EntryX>>), Down, Down, Down >>]

GatherCorpora == {ThrottledCorpus, SharedCorpus, BareCorpus}

\* asyncio.gather of the scraper's search_tasks: the five adapter
\* coroutines are started.
GatherStarts(c) ==
    /\ calls[c].pc = "scraping"
    /\ NoGatherAtWork
    /\ adapter_tasks' = [a \in Adapters |->
           IF a \in ScraperAdapters THEN [IdleAdapterTask EXCEPT !.pc = "running"]
           ELSE IdleAdapterTask]
    /\ UNCHANGED <<corpus, cache_enabled, redis_client, memory_cache, now, ticks, calls,
                   scorer_input, scorer_output, fn_input, fn_output, tasks, requests,
                   completed, search_cache, sessions, http_response>>

\* Lines 152 to 167 of the scraper: the gather returns, the lists are
\* merged in the order it hands them over, deduplicated, ranked and cut,
\* and the explorer converts the records (or lands in its outer except).
GatherReturns(c) ==
    /\ calls[c].pc = "scraping"
    /\ \A a \in ScraperAdapters : adapter_tasks[a].pc = "done"
    /\ calls' = [calls EXCEPT ![c] =
           Scraped(calls[c],
               ranked_results_cut(
                   rank_results(
                       scraper_deduplicate_results(
                           Flatten(gather(scraper_awaitables, completed, adapter_tasks))),
                       calls[c].query),
                   calls[c].limit))]
    /\ adapter_tasks' = [a \in Adapters |-> IdleAdapterTask]
    /\ completed' = <<>>
    /\ UNCHANGED <<corpus, cache_enabled, redis_client, memory_cache, now, ticks,
                   scorer_input, scorer_output, fn_input, fn_output, tasks, requests,
                   search_cache, sessions, http_response>>

\* asyncio.gather of _search_api_sources: the explorer's three adapter
\* coroutines are started.
ApiGatherStarts(c) ==
    /\ calls[c].pc = "api"
    /\ NoGatherAtWork
    /\ adapter_tasks' = [a \in Adapters |->
           IF a \in ApiAdapters THEN [IdleAdapterTask EXCEPT !.pc = "running"]
           ELSE IdleAdapterTask]
    /\ UNCHANGED <<corpus, cache_enabled, redis_client, memory_cache, now, ticks, calls,
                   scorer_input, scorer_output, fn_input, fn_output, tasks, requests,
                   completed, search_cache, sessions, http_response>>

\* The list an adapter of the explorer returns.
api_adapter_records(a, limit) ==
    CASE a = "github_enhanced"    -> search_github_enhanced(ApiCorpus, limit \div 3)
      [] a = "huggingface_api"    -> explorer_search_huggingface(ApiCorpus, limit \div 3)
      [] a = "known_repositories" -> search_known_repositories(ApiCorpus, limit \div 3)

\* Lines 246 to 260 of the explorer: the gather of the API sources returns,
\* the lists are merged, deduplicated, sorted and cut, and the final list is
\* cached and returned.
ApiGatherReturns(c) ==
    /\ calls[c].pc = "api"
    /\ \A a \in ApiAdapters : adapter_tasks[a].pc = "done"
    /\ CacheAndReturn(c, calls[c].results
                              \o Flatten(gather(api_awaitables, completed, adapter_tasks)))
    /\ adapter_tasks' = [a \in Adapters |-> IdleAdapterTask]
    /\ completed' = <<>>
    /\ UNCHANGED <<corpus, cache_enabled, now, ticks,
                   scorer_input, scorer_output, fn_input, fn_output, tasks, requests,
                   search_cache, sessions, http_response>>

GatherInit ==
    /\ corpus \in GatherCorpora
    /\ cache_enabled = FALSE
    /\ redis_client = <<>>
    /\ memory_cache = <<>>
    /\ now = 0
    /\ ticks = 0
    /\ calls = [c \in Calls |-> IdleCall]
    /\ NoScorerAtWork
    /\ NoHelperAtWork
    /\ NoTaskAtWork
    /\ NoGatherAtWork
    /\ NoServiceAtWork

\* What the running adapter tasks may do.
AdapterTaskSteps(c) ==
    \/ \E a \in ScraperAdapters \cup ApiAdapters :
           /\ adapter_tasks[a].next <= search_urls[a]
           /\ SearchRequest(a, reply_of(corpus, a, adapter_tasks[a].next))
    \/ \E a \in ScraperAdapters : SleepEnds(a)
    \/ \E a \in ScraperAdapters :
           AdapterCompletes(a, adapter_records(corpus, a, calls[c].limit))
    \/ \E a \in ApiAdapters :
           AdapterCompletes(a, api_adapter_records(a, calls[c].limit \div 2))

GatherNext ==
    \/ \E query \in Queries : Start(Caller, query, MaxLimit)
    \/ GatherStarts(Caller)
    \/ AdapterTaskSteps(Caller)
    \/ GatherReturns(Caller)
    \/ ApiGatherStarts(Caller)
    \/ ApiGatherReturns(Caller)
    \/ Return(Caller)

GatherSpec == GatherInit /\ [][GatherNext]_vars

\* A step of the event loop on behalf of the search.
EventLoopStep ==
    \/ GatherStarts(Caller)
    \/ AdapterTaskSteps(Caller)
    \/ GatherReturns(Caller)
    \/ ApiGatherStarts(Caller)
    \/ ApiGatherReturns(Caller)

\* The scheduling of the event loop: while some task of the search can run,
\* one of them is run; a request under way completes or times out (the
\* scraper's session has a total timeout of 30 s) and a sleep ends.  When a
\* search is called and when its caller takes the result is up to the
\* caller.
GatherFairness == WF_vars(EventLoopStep)

\* Search pages that list nothing and answer with a mix of statuses.
MixedRepliesCorpus ==
    [github  |-> << Page(<<>>), ErrorPage(429, <<>>), ErrorPage(403, <<>>), Page(<<>>) >>,
     gitlab  |-> << Page(<<>>) >>,
     hub     |-> << ErrorPage(429, <<>>) >>,
     awesome |-> << ErrorPage(403, <<>>), Page(<<>>), Down, Down >>,
     web     |-> << Down, ErrorPage(429, <<>>), Page(<<>>) >>]

\* Every search URL answers the same status, or a mix of them; no page
\* lists a candidate.
TerminationCorpora ==
    {FailingCorpus(status, FALSE) : status \in {200, 403, 429}} \cup {MixedRepliesCorpus}

FairGatherInit ==
    /\ corpus \in TerminationCorpora
    /\ cache_enabled = FALSE
    /\ redis_client = <<>>
    /\ memory_cache = <<>>
    /\ now = 0
    /\ ticks = 0
    /\ calls = [c \in Calls |-> IdleCall]
    /\ NoScorerAtWork
    /\ NoHelperAtWork
    /\ NoTaskAtWork
    /\ NoGatherAtWork
    /\ NoServiceAtWork

FairGatherSpec == FairGatherInit /\ [][GatherNext]_vars /\ GatherFairness

(***************************************************************************)
(* The service of main.py.  GET /mcps/search answers from the search_cache *)
(* table or from SmartMCPExplorer.search_web_mcps, and POST /run-agent     *)
(* runs the agent simulation and stores a row in the sessions table.  Each *)
(* request is one step.  The corpus is what GitHub's code search answers   *)
(* to the two search queries of one search: a reply and, for each item of  *)
(* the listing, what _process_github_file makes of it (a record or None).  *)
(***************************************************************************)

\* WHERE created_at > datetime('now', '-1 hour'), in seconds.
CacheHour == 3600

\* The rows a table of the service may hold in a behaviour.
MaxRows == 2

\* A WebMCPResult as both adapters of SmartMCPExplorer build it (the schema
\* field, which no step of the service reads, is left out).
WebMCPResult(name, description, source_url, tags, domain, repository, stars) ==
    [name |-> name, description |-> description, source_url |-> source_url,
     tags |-> tags, domain |-> domain, validated |-> TRUE, file_type |-> "json",
     repository |-> repository, stars |-> stars]

\* known_sources of _search_known_repositories.
smart_known_sources ==
    << [name |-> "OpenAI MCP Examples",
        url |-> "https://raw.githubusercontent.com/openai/mcp-examples/main/weather.mcp.json",
        description |-> "Weather MCP for getting current weather data",
        domain |-> "weather", tags |-> <<"weather", "api", "openai">>],
       [name |-> "Anthropic MCP Collection",
        url |-> "https://raw.githubusercontent.com/anthropics/mcp-collection/main/travel.mcp.yaml",
        description |-> "Travel booking and management MCP",
        domain |-> "travel", tags |-> <<"travel", "booking", "anthropic">>],
       [name |-> "Community MCP Hub",
        url |-> "https://raw.githubusercontent.com/mcp-hub/community/main/finance.mcp.json",
        description |-> "Financial data and trading MCP",
        domain |-> "finance", tags |-> <<"finance", "trading", "community">>] >>

\* source['name'].lower() and source['description'].lower() of each known
\* source, beside the source.
lowered_known_sources ==
    List([i \in 1..Len(smart_known_sources) |->
            [source |-> smart_known_sources[i],
             name |-> Lower(smart_known_sources[i].name),
             description |-> Lower(smart_known_sources[i].description)]])

\* The filter of matching_sources: the lowered query is in the lowered name,
\* in the lowered description or in a tag.
matches_source(lowered, query_lower) ==
    \/ Contains(lowered.name, query_lower)
    \/ Contains(lowered.description, query_lower)
    \/ \E i \in 1..Len(lowered.source.tags) : Contains(lowered.source.tags[i], query_lower)

matching_sources(query) ==
    SelectSeq(lowered_known_sources, LAMBDA lowered : matches_source(lowered, Lower(query)))

\* The record made of one matching source.
known_source_result(source) ==
    WebMCPResult(source.name, source.description, source.url, source.tags,
                 source.domain, "community/mcp-hub", 42)

\* SmartMCPExplorer._search_known_repositories(query, limit).
smart_search_known_repositories(query, limit) ==
    List([i \in 1..Len(Take(matching_sources(query), limit)) |->
            known_source_result(matching_sources(query)[i].source)])

\* The inner loop of _search_github over data['items'][:limit]: the items
\* _process_github_file made a record of, in order.
processed_items(items, limit) ==
    SelectSeq(Take(items, limit), LAMBDA mcp_result : mcp_result # None)

\* SmartMCPExplorer._search_github(query, limit): the first two search
\* queries; only a reply with status 200 is read, any other reply and any
\* exception leave the results as they are, and the loop goes on.
smart_search_github(remote, query, limit) ==
    Flatten([k \in 1..2 |->
        IF remote.code_search[k].reply = Response(200)
        THEN processed_items(remote.code_search[k].items, limit)
        ELSE <<>>])

RECURSIVE smart_unique_results(_, _, _, _)
\* The loop over results with seen_urls: a record whose source_url was seen
\* is skipped, and the loop breaks when unique_results holds limit records.
smart_unique_results(results, i, unique, limit) ==
    IF i > Len(results) THEN unique
    ELSE IF \E j \in 1..Len(unique) : unique[j].source_url = results[i].source_url
    THEN smart_unique_results(results, i + 1, unique, limit)
    ELSE IF Len(unique) + 1 >= limit THEN Append(unique, results[i])
    ELSE smart_unique_results(results, i + 1, Append(unique, results[i]), limit)

\* SmartMCPExplorer.search_web_mcps(query, limit): each adapter is asked for
\* limit // 2 records, GitHub first.
smart_search_web_mcps(remote, query, limit) ==
    smart_unique_results(
        smart_search_github(remote, query, limit \div 2)
            \o smart_search_known_repositories(query, limit \div 2),
        1, <<>>, limit)

\* Two records GitHub's code search lists, and a third at the URL of the
\* first known source.
WeatherHit ==
    WebMCPResult("weather", "Weather tools", "https://github.com/a/w/blob/main/mcp.json",
                 <<"weather">>, "weather", "a/w", 7)
TravelHit ==
    WebMCPResult("travel", "Travel tools", "https://github.com/b/t/blob/main/mcp.json",
                 <<"travel">>, "travel", "b/t", 3)
MirrorHit ==
    WebMCPResult("mirror", "Weather mirror", smart_known_sources[1].url,
                 <<"weather">>, "weather", "c/m", 1)

\* Both queries answered; the second answered 403; the first raising; and a
\* listing with an item _process_github_file drops and a duplicate URL.
ServiceCorpora ==
    { [code_search |-> << [reply |-> Response(200), items |-> <<WeatherHit, TravelHit>>],
                          [reply |-> Response(200), items |-> <<TravelHit, MirrorHit>>] >>],
      [code_search |-> << [reply |-> Response(200), items |-> <<WeatherHit>>],
                          [reply |-> Response(403), items |-> <<>>] >>],
      [code_search |-> << [reply |-> Failure("ClientError"), items |-> <<>>],
                          [reply |-> Response(200), items |-> <<None, MirrorHit, WeatherHit>>] >>] }

ServiceQueries == {"MCP", "zebra"}
ServiceLimits == {0, 2, MaxLimit}

\* SELECT results FROM search_cache WHERE query = ? AND created_at >
\* datetime('now', '-1 hour'), then fetchone(): the first such row in the
\* order of insertion, or None.
cached_result(rows, query, at) ==
    IF \E i \in 1..Len(rows) : rows[i].query = query /\ rows[i].created_at > at - CacheHour
    THEN rows[CHOOSE i \in 1..Len(rows) :
                /\ rows[i].query = query /\ rows[i].created_at > at - CacheHour
                /\ \A j \in 1..(i - 1) :
                        ~(rows[j].query = query /\ rows[j].created_at > at - CacheHour)]
    ELSE None

\* What an endpoint answers: the status, the detail of an error, and the
\* body (the list of /mcps/search, or the one result of /run-agent).
HttpResponse(status, detail, body) == [status |-> status, detail |-> detail, body |-> body]

\* limit: int = Query(10, ge=1, le=50): FastAPI answers 422 before the
\* handler runs.
SearchIsRejected(query, limit) ==
    /\ limit < 1 \/ limit > 50
    /\ http_response' = HttpResponse(422, "limit", <<>>)
    /\ UNCHANGED search_cache

\* A row of the last hour holds the query: its list, cut to the limit of
\* this request, is the answer.
SearchIsAnsweredFromCache(query, limit) ==
    /\ limit >= 1 /\ limit <= 50
    /\ cached_result(search_cache, query, now) # None
    /\ http_response' = HttpResponse(200, "", Take(cached_result(search_cache, query, now).results, limit))
    /\ UNCHANGED search_cache

\* No such row: the explorer searches with the limit of this request, and
\* the list it returns is stored under the query and answered.
SearchIsPerformed(query, limit) ==
    /\ limit >= 1 /\ limit <= 50
    /\ cached_result(search_cache, query, now) = None
    /\ Len(search_cache) < MaxRows
    /\ search_cache' = Append(search_cache,
            [id |-> Len(search_cache) + 1, query |-> query,
             results |-> smart_search_web_mcps(corpus, query, limit), created_at |-> now])
    /\ http_response' = HttpResponse(200, "", smart_search_web_mcps(corpus, query, limit))

\* GET /mcps/search?query=...&limit=...
GetMcpsSearch(query, limit) ==
    /\ \/ SearchIsRejected(query, limit)
       \/ SearchIsAnsweredFromCache(query, limit)
       \/ SearchIsPerformed(query, limit)
    /\ UNCHANGED <<corpus, cache_enabled, redis_client, memory_cache, now, ticks, calls,
                   scorer_input, scorer_output, fn_input, fn_output, tasks, requests,
                   adapter_tasks, completed, sessions>>

\* The tools of the schemas sent to /run-agent: each has the name and the
\* description the validator of MCPSchema asks for.
WeatherTool == [name |-> "get_weather", description |-> "Current weather"]
CalcTool == [name |-> "calc", description |-> "Evaluate an expression"]

MCPSchema(name, tools) ==
    [name |-> name, version |-> "1.0.0", description |-> None, tools |-> tools]

AgentRequest(prompt, mcp_schema) ==
    [prompt |-> prompt, document |-> None, mcp_schema |-> mcp_schema]

AgentRequests ==
    { AgentRequest(prompt, MCPSchema("s", tools)) :
        prompt \in {"", "weather in Paris"},
        tools \in {<<>>, <<WeatherTool>>, <<CalcTool, WeatherTool>>} }

\* should_use_tool of simulate_agent_execution.
should_use_tool(tool_name, prompt_lower) ==
    \/ Contains(tool_name, "weather")
            /\ (Contains(prompt_lower, "weather") \/ Contains(prompt_lower, "temperature"))
    \/ Contains(tool_name, "search")
            /\ (Contains(prompt_lower, "search") \/ Contains(prompt_lower, "find"))
    \/ Contains(tool_name, "calc")
            /\ \E op \in {"+", "-", "*", "/", "calculate"} : Contains(prompt_lower, op)

\* simulate_agent_execution(prompt, mcp_schema, document): the tools whose
\* name goes with the prompt are called in the order of the schema (the
\* text of the output, the latencies and the token counts are left out).
simulate_agent_execution(prompt, mcp_schema, session_id) ==
    [session_id |-> session_id, model_used |-> "gpt-4",
     tool_calls |-> SelectSeq(mcp_schema.tools,
                        LAMBDA tool : should_use_tool(Lower(tool.name), Lower(prompt)))]

\* prompt: str = Field(..., min_length=1): FastAPI answers 422 before the
\* handler runs.
RunAgentIsRejected(request) ==
    /\ Len(request.prompt) < 1
    /\ http_response' = HttpResponse(422, "prompt", <<>>)
    /\ UNCHANGED sessions

\* str(e) of the HTTPException raised for a schema without tools: the text
\* "400: <detail>" where Starlette defines __str__, the empty text where it
\* does not.
NoToolsTexts ==
    {"Agent execution failed: 400: MCP schema must contain at least one tool",
     "Agent execution failed: "}

\* `if not request.mcp_schema.tools: raise HTTPException(status_code=400, ...)`
\* stands inside the try block whose `except Exception` answers 500:
\* HTTPException is an Exception, so the handler catches its own 400.
RunAgentWithoutTools(request) ==
    /\ Len(request.prompt) >= 1
    /\ Len(request.mcp_schema.tools) = 0
    /\ \E detail \in NoToolsTexts : http_response' = HttpResponse(500, detail, <<>>)
    /\ UNCHANGED sessions

\* The simulation runs, its result is stored in sessions and answered.
RunAgentSimulates(request) ==
    /\ Len(request.prompt) >= 1
    /\ Len(request.mcp_schema.tools) > 0
    /\ Len(sessions) < MaxRows
    /\ sessions' = Append(sessions,
            [id |-> Len(sessions) + 1, prompt |-> request.prompt,
             document |-> request.document, mcp_schema |-> request.mcp_schema,
             results |-> simulate_agent_execution(request.prompt, request.mcp_schema,
                                                  Len(sessions) + 1)])
    /\ http_response' = HttpResponse(200, "",
            <<simulate_agent_execution(request.prompt, request.mcp_schema, Len(sessions) + 1)>>)

\* POST /run-agent
RunAgent(request) ==
    /\ \/ RunAgentIsRejected(request)
       \/ RunAgentWithoutTools(request)
       \/ RunAgentSimulates(request)
    /\ UNCHANGED <<corpus, cache_enabled, redis_client, memory_cache, now, ticks, calls,
                   scorer_input, scorer_output, fn_input, fn_output, tasks, requests,
                   adapter_tasks, completed, search_cache>>

ServiceInit ==
    /\ corpus \in ServiceCorpora
    /\ cache_enabled = FALSE
    /\ redis_client = <<>>
    /\ memory_cache = <<>>
    /\ now = 0
    /\ ticks = 0
    /\ calls = [c \in Calls |-> IdleCall]
    /\ NoScorerAtWork
    /\ NoHelperAtWork
    /\ NoTaskAtWork
    /\ NoGatherAtWork
    /\ NoServiceAtWork

ServiceNext ==
    \/ \E query \in ServiceQueries, limit \in ServiceLimits : GetMcpsSearch(query, limit)
    \/ \E request \in AgentRequests : RunAgent(request)
    \/ \E d \in TickSteps : Tick(d)

ServiceSpec == ServiceInit /\ [][ServiceNext]_vars

(***************************************************************************)
(* The properties checked.                                                 *)
(***************************************************************************)

\* The pair (lower-cased name, source_url) of a record.
PairOf(r) == <<Lower(r.name.v), r.source_url>>

\* The calls whose returned list is in the caller's hands.
Returned == {c \in Calls : calls[c].pc = "done"}

\* C1: in every returned list, fresh or cached, no two records have the same
\* (lower-cased name, source_url); of the records of the merged input with
\* one pair, the only one that can be in the list is the first in merged
\* order, and it is there unless the cut to `limit` removed it.
C1_FirstOfEachPairSurvives ==
    \A c \in Returned :
        LET out    == calls[c].value
            merged == calls[c].results
        IN  /\ \A i, j \in 1..Len(out) : i # j => PairOf(out[i]) # PairOf(out[j])
            /\ calls[c].outcome = "fresh" =>
                  /\ \A i \in 1..Len(out) : \E m \in 1..Len(merged) :
                        /\ merged[m] = out[i]
                        /\ \A h \in 1..(m - 1) : PairOf(merged[h]) # PairOf(merged[m])
                  /\ Len(out) < calls[c].limit =>
                        \A m \in 1..Len(merged) : \E i \in 1..Len(out) :
                            PairOf(out[i]) = PairOf(merged[m])

\* C1's case: a merged input with two records of one pair and different
\* descriptions, and a returned list that holds the first of them.
C1_Witness ==
    \E c \in Returned :
        /\ calls[c].outcome = "fresh"
        /\ \E m, n \in 1..Len(calls[c].results) :
              /\ m < n
              /\ PairOf(calls[c].results[m]) = PairOf(calls[c].results[n])
              /\ calls[c].results[m].description # calls[c].results[n].description
              /\ \E i \in 1..Len(calls[c].value) : calls[c].value[i] = calls[c].results[m]

\* C2: every returned list, fresh or cached, is in descending order of
\* confidence_score.
C2_SortedByConfidence ==
    \A c \in Returned :
        \A i, j \in 1..Len(calls[c].value) :
            i < j => FLeq(calls[c].value[j].confidence_score,
                          calls[c].value[i].confidence_score)

\* C2's case: the merged input was not in descending order of confidence and
\* the returned list holds records of different confidence.
C2_Witness ==
    \E c \in Returned :
        /\ calls[c].outcome = "fresh"
        /\ \E m, n \in 1..Len(calls[c].results) :
              /\ m < n
              /\ FLess(calls[c].results[m].confidence_score,
                       calls[c].results[n].confidence_score)
              /\ \E i, j \in 1..Len(calls[c].value) :
                    /\ calls[c].value[i] = calls[c].results[n]
                    /\ calls[c].value[j] = calls[c].results[m]

\* C3: a call with limit >= 1 returns at most `limit` records, from a fresh
\* aggregation or from the cache.
C3_AtMostLimit ==
    \A c \in Returned :
        calls[c].limit >= 1 => Len(calls[c].value) <= calls[c].limit

\* C3's case: the adapters produced more records than `limit` and the
\* returned list holds exactly `limit`.
C3_Witness ==
    \E c \in Returned :
        /\ calls[c].outcome = "fresh"
        /\ Len(Flatten(search_tasks(fetch_file_content, corpus, calls[c].limit)))
               > calls[c].limit
        /\ Len(calls[c].value) = calls[c].limit

\* C4: a call that starts while an entry for its key is in the cache and
\* before that entry expires is answered from the cache with the stored
\* list, whatever its length, and invokes no adapter.
C4_IdempotentWithinTTL ==
    \A c \in Calls :
        (calls[c].pc # "idle" /\ calls[c].seen = "live") =>
            /\ calls[c].outcome = "cached"
            /\ calls[c].value = calls[c].seen_data
            /\ calls[c].invoked = {}

\* C5: an entry is put with an expiry 3600 s after its creation; a call
\* whose lookup comes 3601 s or more after the creation, with no put in
\* between, is not answered from the cache: it goes on to the scraper, and
\* the lookup has removed the entry from the in-memory cache.
C5_ExpiredEntryIsAbsent ==
    [][\A c \in Calls :
          LET key == cache_key(calls'[c].query, calls'[c].limit)
          IN  /\ (calls[c].pc = "api" /\ calls'[c].pc = "done") =>
                    IF cache_enabled
                    THEN redis_client'[key].expire_at = now + 3600
                    ELSE memory_cache'[key].expires = now + 3600
              /\ (calls[c].pc = "idle" /\ calls'[c].pc # "idle") =>
                    /\ (/\ ~cache_enabled
                        /\ key \in DOMAIN memory_cache
                        /\ now >= (memory_cache[key].expires - 3600) + 3601) =>
                            /\ calls'[c].pc = "scraping"
                            /\ key \notin DOMAIN memory_cache'
                    /\ (/\ cache_enabled
                        /\ key \in DOMAIN redis_client
                        /\ now >= (redis_client[key].expire_at - 3600) + 3601) =>
                            calls'[c].pc = "scraping"
              /\ (/\ calls[c].pc = "scraping"
                  /\ calls'[c].pc # "scraping"
                  /\ calls[c].seen = "stale") =>
                    calls'[c].invoked = ScraperAdapters
      ]_vars

\* C5's case: a call found an entry 3601 s or more after its creation and
\* has run a fresh aggregation.
C5_Witness ==
    \E c \in Returned :
        /\ calls[c].seen = "stale"
        /\ calls[c].outcome = "fresh"
        /\ calls[c].invoked = ScraperAdapters \cup ApiAdapters

\* C6: in a search that is not answered from the cache every source adapter
\* is invoked, and every record an adapter produced is in the returned list
\* unless a record of the same URL is there or the adapters produced more
\* than `limit` records, so that some had to be cut.
C6_FaultIsolation ==
    \A c \in Returned :
        calls[c].outcome # "cached" =>
            LET produced == Flatten(search_tasks(fetch_file_content, corpus, calls[c].limit))
            IN  /\ calls[c].invoked = ScraperAdapters \cup ApiAdapters
                /\ \A i \in 1..Len(produced) :
                      \/ Len(produced) > calls[c].limit
                      \/ \E j \in 1..Len(calls[c].value) :
                            calls[c].value[j].source_url = produced[i].source_url

\* Every search URL of every adapter fails.
AllAdaptersFail ==
    \A pages \in {corpus.github, corpus.gitlab, corpus.hub, corpus.awesome, corpus.web} :
        \A p \in 1..Len(pages) : pages[p].status # 200

\* C7: a call returns an error, not a list, exactly when every adapter
\* failed and the cache held no entry for the request.
C7_TotalFailureIsAnError ==
    \A c \in Returned :
        calls[c].returned = "error" <=> (AllAdaptersFail /\ calls[c].seen = "miss")

\* C8: a candidate whose name and description are strings is in the returned
\* list of a search not answered from the cache (unless a record of the same
\* pair is there or the candidates were more than `limit`, so that some had
\* to be cut), whatever the other candidates are.
C8_SkipAndContinue ==
    \A c \in Returned :
        calls[c].outcome # "cached" =>
            LET produced == Flatten(search_tasks(fetch_file_content, corpus, calls[c].limit))
            IN  \A i \in 1..Len(produced) :
                    (produced[i].name.k = "str" /\ produced[i].description.k = "str") =>
                        \/ Len(produced) > calls[c].limit
                        \/ \E j \in 1..Len(calls[c].value) :
                              PairOf(calls[c].value[j]) = PairOf(produced[i])

\* C9: a confidence scorer that was called has not raised and has returned
\* a score in [0.0, 1.0].
C9_ScorersNeverRaise ==
    scorer_output.fn # "none" =>
        /\ ~scorer_output.raised
        /\ FLeq(F_0_0, scorer_output.score)
        /\ FLeq(scorer_output.score, F_1_0)

\* The strict MCP shape: a name and a version of the two patterns, a
\* non-empty list of tools, each a mapping with a name, a description of at
\* least 10 characters and a mapping for its parameters.
StrictShape(schema) ==
    /\ schema.kind = "dict"
    /\ schema.data.name.k = "str"
    /\ Len(schema.data.name.v) > 0
    /\ CharsIn(schema.data.name.v, LowerChars \o UpperChars \o DigitChars \o "._-")
    /\ schema.data.version.k = "str"
    /\ \E a, b, c \in 1..Len(schema.data.version.v) :
          /\ a + b + c + 2 = Len(schema.data.version.v)
          /\ LET v == schema.data.version.v
             IN  /\ CharsIn(SubSeq(v, 1, a), DigitChars)
                 /\ SubSeq(v, a + 1, a + 1) = "."
                 /\ CharsIn(SubSeq(v, a + 2, a + b + 1), DigitChars)
                 /\ SubSeq(v, a + b + 2, a + b + 2) = "."
                 /\ CharsIn(SubSeq(v, a + b + 3, a + b + c + 2), DigitChars)
    /\ schema.data.tools.k = "list"
    /\ Len(schema.data.tools.items) >= 1
    /\ \A t \in 1..Len(schema.data.tools.items) :
          LET tool == schema.data.tools.items[t]
          IN  /\ tool.isDict
              /\ tool.name.k = "str"
              /\ tool.description.k = "str"
              /\ Len(tool.description.v) >= 10
              /\ tool.parameters.k = "dict"

\* C10: in every returned record the schema is present exactly when
\* validated is true, and a present schema has the strict MCP shape.
C10_SchemaIffValidated ==
    \A c \in Returned :
        \A i \in 1..Len(calls[c].value) :
            LET r == calls[c].value[i]
            IN  /\ (r.schema # NoSchema) <=> r.validated
                /\ r.validated => StrictShape(r.schema)

\* C10's case: a returned list with a validated record carrying its schema
\* and an unvalidated record carrying none.
C10_Witness ==
    \E c \in Returned :
        \E i, j \in 1..Len(calls[c].value) :
            /\ calls[c].value[i].validated
            /\ calls[c].value[i].schema # NoSchema
            /\ ~calls[c].value[j].validated
            /\ calls[c].value[j].schema = NoSchema

\* fn_input.content parses to a mapping.
ParsesToMapping == LoadJsonThenYaml(fn_input.content) = "ok" /\ fn_input.content.kind = "dict"

\* C11: a parsed document without a `tools` key, or whose `tools` is an empty
\* sequence, is rejected: the classifier returns False for it and fetching
\* and validating it produces no record.
C11_NoToolsIsRejected ==
    (/\ ParsesToMapping
     /\ \/ fn_input.content.data.tools.k = "absent"
        \/ /\ fn_input.content.data.tools.k = "list"
           /\ fn_input.content.data.tools.items = <<>>)
    => /\ fn_output.fn = "classify" => ~fn_output.accepted
       /\ fn_output.fn = "fetch_and_validate" => fn_output.records = <<>>

\* C12: a text that neither parser reads, or that parses to something other
\* than a mapping (`not json at all` is a YAML string), is an ordinary
\* negative: the classifier returns False without raising, and fetching and
\* validating the text produces no record.
C12_UnparseableIsRejected ==
    ~ParsesToMapping =>
        /\ ~fn_output.raised
        /\ fn_output.fn = "classify" => ~fn_output.accepted
        /\ fn_output.fn = "fetch_and_validate" => fn_output.records = <<>>

\* C12's case: the text `not json at all` was fetched with status 200 and
\* validated.
C12_Witness ==
    /\ fn_input.content = PlainText
    /\ fn_input.response = Response(200)
    /\ fn_output.fn = "fetch_and_validate"
    /\ fn_output.records = <<>>

\* C14: _fetch_file_content never raises: a status other than success, a
\* transport error and a timeout all yield None, and the text is returned
\* only when the request succeeded (status 200, body decoded).
C14_FetchNeverRaises ==
    fn_output.fn = "fetch" =>
        /\ ~fn_output.raised
        /\ IF fn_input.response \in {Response(200)}
           THEN fn_output.content = fn_input.content
           ELSE fn_output.content = NoContent

\* C14's case: a request that timed out, and one answered 503, for a text
\* that is a valid document.
C14_Witness ==
    /\ fn_output.fn = "fetch"
    /\ fn_input.response \in {Failure("TimeoutError"), Response(503)}
    /\ is_valid_mcp_content(fn_input.content)
    /\ fn_output.content = NoContent

\* The order of the domain table as the specification gives it.
ClaimedDomainOrder ==
    << "weather", "finance", "travel", "productivity", "development", "social",
       "ecommerce", "data", "ai", "communication" >>

\* The rows of a keyword table one of whose keywords occurs in the text.
MatchingRows(table, text) ==
    { i \in 1..Len(table) :
        \E k \in 1..Len(table[i].keywords) : Contains(text, table[i].keywords[k]) }

\* The domain of the matching row that comes first in the table, `general`
\* when no row matches.
EarliestMatch(table, text) ==
    IF MatchingRows(table, text) = {} THEN "general"
    ELSE table[CHOOSE i \in MatchingRows(table, text) :
                  \A j \in MatchingRows(table, text) : i <= j].domain

\* The lower-cased "name description" text of the document in fn_input.
DocText ==
    Lower(Format(fn_input.content.data.name) \o " "
          \o Format(fn_input.content.data.description))

\* Both tables list the domains in the claimed order.
TablesInClaimedOrder ==
    /\ [i \in 1..Len(scraper_domain_keywords) |-> scraper_domain_keywords[i].domain]
           = ClaimedDomainOrder
    /\ [i \in 1..Len(explorer_domain_keywords) |-> explorer_domain_keywords[i].domain]
           = ClaimedDomainOrder

TagSources ==
    ExplicitTags(fn_input.content.data)
    \cup PatternTags(Lower(fn_input.title \o " " \o fn_input.description \o " "
                           \o Format(fn_input.content.data.name) \o " "
                           \o Format(fn_input.content.data.description)))
    \cup { FirstToken(Lower(fn_input.content.data.tools.items[i].name.v)) :
             i \in { j \in 1..Len(fn_input.content.data.tools.items) :
                       /\ fn_input.content.data.tools.items[j].isDict
                       /\ fn_input.content.data.tools.items[j].name.k \in {"str", "absent"} } }

\* A step of the tag extraction raises on fn_input's document.
TagStepRaises ==
    \/ TagsOf(fn_input.content.data).k = "null"
    \/ fn_input.content.data.tools.k = "null"
    \/ \E i \in 1..Len(fn_input.content.data.tools.items) :
          \/ ~fn_input.content.data.tools.items[i].isDict
          \/ fn_input.content.data.tools.items[i].name.k \notin {"str", "absent"}

Signal(when, add) == [when |-> when, add |-> add]

\* The two rows of each tool, in the order of the tools.
ToolSignals(items) ==
    [ i \in 1..(2 * Len(items)) |->
        IF i % 2 = 1
        THEN Signal(ParamsTruthy(items[(i + 1) \div 2].parameters), F_0_05)
        ELSE Signal(Len(items[i \div 2].description.v) > 20, F_0_05) ]

\* The signal table for a document, a URL and a title, in the order the
\* scorer goes through it.
SignalTable(data, url, title) ==
    << Signal(Truthy(data.description), F_0_1),
       Signal(Truthy(data.version), F_0_1),
       Signal(Len(data.tools.items) > 1, F_0_1) >>
    \o ToolSignals(data.tools.items)
    \o << Signal(Contains(url, "github.com"), F_0_1),
          Signal(Contains(url, ".mcp."), F_0_1),
          Signal(Contains(Lower(title), "mcp")
                 \/ Contains(Lower(title), "model context protocol"), F_0_1) >>

RECURSIVE SumOfSignals(_, _, _)
\* `score` plus the increments of the satisfied rows from row i on, added
\* one after the other as floats.
SumOfSignals(table, i, score) ==
    IF i > Len(table) THEN score
    ELSE SumOfSignals(table, i + 1,
             IF table[i].when THEN FAdd(score, table[i].add) ELSE score)

\* Evaluating a signal raises on the document handed to the scorer.
SignalRaises ==
    \/ LoadJsonThenYaml(scorer_input.content) # "ok"
    \/ scorer_input.content.kind # "dict"
    \/ scorer_input.content.data.tools.k \notin {"list", "absent"}
    \/ \E i \in 1..Len(scorer_input.content.data.tools.items) :
          \/ ~scorer_input.content.data.tools.items[i].isDict
          \/ scorer_input.content.data.tools.items[i].description.k \notin {"str", "absent"}

\* The scraper's scorer was called on the scenario A document with a URL
\* and a title that earn no bonus.
ScenarioAScored ==
    /\ scorer_output.fn = "scraper"
    /\ scorer_input.content = ScenarioADoc
    /\ scorer_input.url = WebT
    /\ scorer_input.title = ""

LookupOf(c) == get_cached_results(cache_key(calls[c].query, calls[c].limit)).list

\* C13: cached values are copies: when the caller changes a record of a list
\* that search_web_mcps returned, fresh or from the cache, a lookup of the
\* call's key returns what it returned before the change.
C13_CachedValuesAreCopies ==
    [][\A c \in Calls :
          (/\ calls[c].pc = "done"
           /\ calls'[c].pc = "done"
           /\ calls'[c].value # calls[c].value)
          => /\ memory_cache' = memory_cache
             /\ redis_client' = redis_client
             /\ LookupOf(c)' = LookupOf(c)
      ]_vars

\* No search URL of the pages answers 200.
EverySearchUrlFails(pages) == \A p \in 1..Len(pages) : pages[p].status # 200

\* The pages of the scraper adapter that left fn_output.
PagesOfAdapter ==
    IF fn_output.fn = "github" THEN corpus.github
    ELSE IF fn_output.fn = "gitlab" THEN corpus.gitlab
    ELSE IF fn_output.fn = "huggingface" THEN corpus.hub
    ELSE IF fn_output.fn = "awesome_lists" THEN corpus.awesome
    ELSE corpus.web

\* C15: no adapter raises to the aggregator, and an adapter none of whose
\* search URLs answers returns the empty list; the explorer's own adapters,
\* every request of which fails, return the empty list as well.
C15_FailingAdapterReturnsEmpty ==
    /\ fn_output.fn \in ScraperAdapters =>
           /\ ~fn_output.raised
           /\ EverySearchUrlFails(PagesOfAdapter) => fn_output.records = <<>>
    /\ fn_output.fn \in {"github_enhanced", "explorer_huggingface", "known_repositories"} =>
           /\ ~fn_output.raised
           /\ fn_output.records = <<>>

\* C15's case: the GitLab search answered 503 with a body that lists a
\* valid document, and the adapter returned the empty list.
C15_Witness ==
    /\ fn_output.fn = "gitlab"
    /\ corpus.gitlab[1].status = 503
    /\ corpus.gitlab[1].items # <<>>
    /\ fn_output.records = <<>>

\* C19: the requests issued through one scraper instance are serialized:
\* of any two of them, by the same task or by different concurrently
\* running tasks, the later is issued at least the configured delay after
\* the earlier.
C19_RequestsAreSerialized ==
    \A i \in 1..Len(requests) : \A j \in (i + 1)..Len(requests) :
        requests[j].at >= requests[i].at + request_delay

\* The store the explorer caches in.
Store == IF cache_enabled THEN redis_client ELSE memory_cache

\* The cache key of call c.
KeyOf(c) == cache_key(calls[c].query, calls[c].limit)

\* The entry of `key` is within its TTL.
WithinTTL(key) ==
    IF cache_enabled THEN now < redis_client[key].expire_at
    ELSE now < memory_cache[key].expires

\* Calls c and d, two different calls, missed the cache for the same key
\* and have completed a fresh aggregation.
BothMissedAndCompleted(c, d) ==
    /\ c # d
    /\ calls[c].pc = "done" /\ calls[d].pc = "done"
    /\ calls[c].seen = "miss" /\ calls[d].seen = "miss"
    /\ calls[c].outcome = "fresh" /\ calls[d].outcome = "fresh"
    /\ KeyOf(c) = KeyOf(d)

\* C20: concurrent searches on one key do not corrupt the cache: an entry
\* is only ever written whole, as the complete final list of the call that
\* writes it; once the concurrent calls, which all missed, have all
\* completed, the entry is the list of one of them, the one that wrote
\* last; and a lookup within the TTL returns exactly the stored list.
C20_LastWriterWins ==
    /\ []((\A c \in Searchers : \A d \in Searchers \ {c} : BothMissedAndCompleted(c, d)) =>
            \E c \in Searchers :
                /\ KeyOf(c) \in DOMAIN Store
                /\ Store[KeyOf(c)].data = calls[c].value)
    /\ [](\A key \in DOMAIN Store :
            WithinTTL(key) =>
                /\ get_cached_results(key).found
                /\ get_cached_results(key).list = Store[key].data)
    /\ [][\A key \in DOMAIN Store' :
            (key \notin DOMAIN Store \/ Store'[key] # Store[key]) =>
                \E c \in Searchers :
                    /\ calls[c].pc = "api" /\ calls'[c].pc = "done"
                    /\ KeyOf(c) = key
                    /\ Store'[key].data = calls'[c].value
                    /\ calls'[c].value = final_results(calls'[c].results, calls'[c].limit)
       ]_vars

\* C20's case: two calls on one key both missed, aggregated different lists
\* because the pages changed in between, and have completed; the entry is
\* the list of one of them and a lookup returns it.
C20_Witness ==
    \E c \in Searchers : \E d \in Searchers :
        /\ BothMissedAndCompleted(c, d)
        /\ calls[c].value # calls[d].value
        /\ calls[c].value # <<>> /\ calls[d].value # <<>>
        /\ Store[KeyOf(c)].data = calls[d].value
        /\ get_cached_results(KeyOf(c)).list = calls[d].value

\* C21: an entry of the in-memory cache is readable at every lookup time
\* from its creation up to and including creation + ttl: such a lookup finds
\* the stored list and leaves the entry in place; a lookup treats the entry
\* as absent only after creation + ttl.
C21_ReadableThroughBoundary ==
    [][\A c \in Calls :
          LET key == cache_key(calls'[c].query, calls'[c].limit)
          IN  (/\ calls[c].pc = "idle" /\ calls'[c].pc # "idle"
               /\ ~cache_enabled
               /\ key \in DOMAIN memory_cache) =>
                  /\ (/\ memory_cache[key].expires - TTL <= now
                      /\ now <= (memory_cache[key].expires - TTL) + TTL) =>
                          /\ calls'[c].seen = "live"
                          /\ calls'[c].seen_data = memory_cache[key].data
                          /\ key \in DOMAIN memory_cache'
                  /\ calls'[c].seen = "stale" =>
                          now > (memory_cache[key].expires - TTL) + TTL
      ]_vars

\* The fixed vocabulary of domains: the keys of the keyword tables and the
\* fallback.
DomainVocabulary ==
    {"weather", "finance", "travel", "productivity", "development", "social",
     "ecommerce", "data", "ai", "communication", "general"}

\* C22: the domain of every record the scraper builds from a fetched
\* document, as the explorer passes it on, and every value the two domain
\* classifiers return, is a member of the fixed vocabulary, whatever the
\* document contains.
C22_DomainInVocabulary ==
    /\ fn_output.fn = "fetch_and_validate" =>
           \A i \in 1..Len(fn_output.records) :
               \E d \in DomainVocabulary :
                   convert_scraped(fn_output.records[i]).domain = StrVal(d)
    /\ fn_output.fn \in {"scraper_domain", "explorer_domain"} =>
           \E d \in DomainVocabulary : fn_output.domain = StrVal(d)

\* How often the record r occurs in the list.
Occurrences(list, r) == Cardinality({i \in 1..Len(list) : list[i] = r})

\* The relevance scores of a list are in descending order.
DescendingRelevance(list, query) ==
    \A i \in 1..Len(list) : \A j \in i..Len(list) :
        FLeq(relevance_score(list[j], query), relevance_score(list[i], query))

\* The list _rank_results returned is a permutation of its input: every
\* record in it is a record of the input with every field, the
\* confidence_score included, as it was, and the order is by descending
\* relevance (stored score plus bonuses).
ReturnsAPermutation ==
    /\ Len(fn_output.records) = Len(fn_input.results)
    /\ \A i \in 1..Len(fn_input.results) :
           Occurrences(fn_output.records, fn_input.results[i])
               = Occurrences(fn_input.results, fn_input.results[i])
    /\ DescendingRelevance(fn_output.records, fn_input.query)

\* The re-ranking pass only reorders whenever it returns.
RankOnlyReordersWhenItReturns ==
    (fn_output.fn = "rank" /\ ~fn_output.raised) => ReturnsAPermutation

\* The pass has changed the order of a list, and the first record of its
\* result got a bonus that its stored score does not include.
RankReordered ==
    /\ fn_output.fn = "rank"
    /\ ~fn_output.raised
    /\ fn_output.records # fn_input.results
    /\ relevance_score(fn_output.records[1], fn_input.query)
           # fn_output.records[1].confidence_score

\* C23: the re-ranking pass only reorders: for every input list
\* _rank_results returns a permutation of its input in which every record
\* keeps the confidence_score and all other fields it had.
C23_RankOnlyReorders ==
    fn_output.fn = "rank" => (~fn_output.raised /\ ReturnsAPermutation)

\* The step gives the key a new entry or changes the entry it had.
Created(key) ==
    /\ key \in DOMAIN Store'
    /\ (key \in DOMAIN Store => Store'[key] # Store[key])

\* The step is the completion of the aggregation of call c.
Completes(c) ==
    calls[c].pc = "api" /\ calls'[c].pc = "done" /\ calls'[c].outcome = "fresh"

\* The step ends call c on its failure path or on a cache hit.
EndsWithoutAggregation(c) ==
    /\ calls[c].pc # "done"
    /\ calls'[c].pc = "done"
    /\ calls'[c].outcome \in {"failed", "cached"}

\* The frame of the cache writes: a step that ends a call without a
\* completed aggregation creates no entry, and a completing call puts its
\* list under its own key and leaves the entries of all other keys alone.
WritesAreFramed ==
    \A c \in Calls :
        /\ EndsWithoutAggregation(c) => UNCHANGED <<redis_client, memory_cache>>
        /\ Completes(c) =>
               /\ KeyOf(c) \in DOMAIN Store'
               /\ Store'[KeyOf(c)].data = calls'[c].value
               /\ \A key \in (DOMAIN Store \cup DOMAIN Store') \ {KeyOf(c)} :
                      key \in DOMAIN Store /\ ~Created(key)

\* Every entry is created by the completing aggregation of a call, under
\* that call's key, and the writes are framed.
EntriesComeFromCompletedAggregations ==
    [][/\ \A key \in DOMAIN Store' :
              Created(key) => \E c \in Calls : Completes(c) /\ key = KeyOf(c)
       /\ WritesAreFramed
      ]_vars

\* C24: a cache entry is created only by a cache miss whose aggregation ran
\* to completion: every step that creates or changes an entry is the
\* completion of a call whose lookup did not find a live entry for its key;
\* a call that ends on its failure path or on a cache hit writes nothing,
\* and a completing call writes its own key only.
C24_OnlyCompletedMissesWrite ==
    [][/\ \A key \in DOMAIN Store' :
              Created(key) =>
                  \E c \in Calls :
                      /\ Completes(c)
                      /\ key = KeyOf(c)
                      /\ calls[c].seen \in {"miss", "stale"}
       /\ WritesAreFramed
      ]_vars

\* The caps the adapters are said to keep.
ClaimedCaps ==
    [a \in {"github_enhanced", "smart_github", "github", "awesome_lists", "general_web"} |->
        CASE a = "github_enhanced" -> 3
          [] a = "smart_github"    -> 2
          [] a = "github"          -> 4
          [] a = "awesome_lists"   -> 4
          [] a = "general_web"     -> 3]

\* No adapter has issued more search requests than its cap, whatever the
\* replies were.
SearchRequestsWithinCaps ==
    \A a \in DOMAIN ClaimedCaps :
        /\ adapter_tasks[a].issued <= ClaimedCaps[a]
        /\ Len(adapter_tasks[a].replies) <= ClaimedCaps[a]

\* An adapter has used up its cap: four search requests of the scraper's
\* GitHub adapter, one of them answered 429.
CapIsReached ==
    /\ adapter_tasks["github"].pc = "done"
    /\ adapter_tasks["github"].issued = 4
    /\ \E i \in 1..4 : adapter_tasks["github"].replies[i] = Response(429)

\* C26: every adapter issues at most its constant number of search
\* requests per call, whatever the query and the replies (GitHub API
\* adapter 3, in SmartMCPExplorer 2, the scraper's GitHub and awesome-list
\* adapters 4, general web 3), and a GitHub API adapter issues no search
\* query after one that was answered 403.
C26_CappedAndStoppedBy403 ==
    /\ SearchRequestsWithinCaps
    /\ \A a \in {"github_enhanced", "smart_github"} :
           \A i \in 1..Len(adapter_tasks[a].replies) :
               adapter_tasks[a].replies[i] = Response(403) =>
                   i = Len(adapter_tasks[a].replies)

\* C25: the merge is independent of scheduling: whatever the interleaving
\* of the adapter tasks and whatever the order they completed in, the list
\* the scraper returns is the one the corpus, the query and the limit
\* determine, and so is the list the explorer returns.
C25_MergeIsIndependentOfScheduling ==
    [][\A c \in Calls :
          /\ (calls[c].pc = "scraping" /\ calls'[c].pc # "scraping") =>
                 calls'[c] = Scraped(calls[c],
                                 scraper_search_web_mcps(fetch_file_content, corpus,
                                                         calls[c].query, calls[c].limit))
          /\ (calls[c].pc = "api" /\ calls'[c].pc = "done") =>
                 calls'[c].value =
                     final_results(calls[c].results
                                       \o search_api_sources(ApiCorpus, calls[c].limit \div 2),
                                   calls[c].limit)
      ]_vars

\* C25's case: the five adapters of the scraper have completed, the last of
\* the awaitables first and the first one last, two of them with records
\* of the same file, and the merge is about to run.
C25_Witness ==
    /\ calls[Caller].pc = "scraping"
    /\ Len(completed) = 5
    /\ completed[1] = "general_web"
    /\ completed[5] = "github"
    /\ \E i \in 1..Len(adapter_tasks["github"].records) :
       \E j \in 1..Len(adapter_tasks["awesome_lists"].records) :
           adapter_tasks["github"].records[i].source_url
               = adapter_tasks["awesome_lists"].records[j].source_url

\* The search of the caller is under way; it has returned a list and none
\* of its adapter tasks is left running or sleeping.
SearchUnderWay == calls[Caller].pc \in {"scraping", "api"}
SearchReturned ==
    /\ calls[Caller].pc = "done"
    /\ calls[Caller].returned = "list"
    /\ \A a \in Adapters : adapter_tasks[a].pc \notin {"running", "sleeping"}

\* C28: every search terminates: a call of search_web_mcps that has been
\* started eventually returns a list (possibly empty) to its caller, with
\* every adapter task it started completed, whatever the search URLs answer
\* (listings, error statuses, 403 and 429 included).
C28_EverySearchTerminates == SearchUnderWay ~> SearchReturned

\* C28's case: the scraper's GitHub adapter is in the 60 s sleep that
\* follows a 429 while other adapter tasks of the same search are running.
C28_Witness ==
    /\ calls[Caller].pc = "scraping"
    /\ adapter_tasks["github"].pc = "sleeping"
    /\ adapter_tasks["github"].replies[Len(adapter_tasks["github"].replies)] = Response(429)
    /\ \E a \in ScraperAdapters \ {"github"} : adapter_tasks[a].pc = "running"

\* The list the scraper handed to call c, whose records the call has
\* converted one by one into calls[c].results.
ScrapedFor(c) ==
    scraper_search_web_mcps(fetch_file_content, corpus, calls[c].query, calls[c].limit).list

\* The parser the explorer chooses by file_type reads the record's content.
ParserReads(scraped_mcp) ==
    IF scraped_mcp.file_type = "json"
    THEN JsonLoads(scraped_mcp.content) = "ok"
    ELSE YamlSafeLoad(scraped_mcp.content) = "ok"

\* A converted record has half the scraper's score exactly when the parser
\* raised on its content, and the scraper's score otherwise, validated or
\* not.
HalvedExactlyWhenParsingRaises ==
    \A c \in Calls :
        calls[c].pc = "api" =>
            \A i \in 1..Len(calls[c].results) :
                calls[c].results[i].confidence_score =
                    IF ParserReads(ScrapedFor(c)[i])
                    THEN ScrapedFor(c)[i].confidence_score
                    ELSE FHalf(ScrapedFor(c)[i].confidence_score)

\* A call holds a converted record that is unvalidated with half the score
\* and one that is unvalidated with the full score.
BothKindsOfUnvalidated ==
    \E c \in Calls :
        /\ calls[c].pc = "api"
        /\ \E i, j \in 1..Len(calls[c].results) :
               /\ ~calls[c].results[i].validated
               /\ ~ParserReads(ScrapedFor(c)[i])
               /\ ~calls[c].results[j].validated
               /\ ParserReads(ScrapedFor(c)[j])

\* C29: every record converted from the web-scraping source with
\* validated = false has half the score the scraper computed for it, and
\* every record with validated = true has the scraper's score unchanged.
C29_UnvalidatedAreHalved ==
    \A c \in Calls :
        calls[c].pc = "api" =>
            /\ Len(calls[c].results) = Len(ScrapedFor(c))
            /\ \A i \in 1..Len(calls[c].results) :
                   calls[c].results[i].confidence_score =
                       IF calls[c].results[i].validated
                       THEN ScrapedFor(c)[i].confidence_score
                       ELSE FHalf(ScrapedFor(c)[i].confidence_score)


\* What a fresh search with the limit of the request returns on the corpus.
FreshSearch(query, limit) == smart_search_web_mcps(corpus, query, limit)

\* C27: GET /mcps/search tells requests apart by limit as well as by query:
\* a request answered from the cache gets the list a fresh search with the
\* limit of the request would return on the unchanged corpus.
C27_CacheDistinguishesLimits ==
    [][\A query \in ServiceQueries, limit \in ServiceLimits :
            GetMcpsSearch(query, limit) /\ SearchIsAnsweredFromCache(query, limit)
                => http_response'.body = FreshSearch(query, limit)]_vars

\* What the code keeps: a request answered from the cache gets the list the
\* row of its query holds, cut to its limit, whatever limit the row was
\* computed for, and the table is left as it is.
CacheHitCutsTheStoredList ==
    [][\A query \in ServiceQueries, limit \in ServiceLimits :
            GetMcpsSearch(query, limit) /\ SearchIsAnsweredFromCache(query, limit)
                => /\ http_response'.body = Take(cached_result(search_cache, query, now).results, limit)
                   /\ search_cache' = search_cache]_vars

\* A row computed with the largest limit answers a smaller one, and a row
\* computed with a smaller limit answers the largest.
RowsOfBothLimits ==
    /\ \E i \in 1..Len(search_cache) :
            search_cache[i].query = "MCP" /\ Len(search_cache[i].results) = MaxLimit
    /\ http_response.status = 200


\* A request to /run-agent whose schema has no tools was the last one served.
EmptyToolsAnswered == http_response.detail \in NoToolsTexts

\* C30: POST /run-agent with a schema whose tools list is empty is answered
\* 400; the simulation does not run and sessions gets no row.
C30_EmptyToolsAnswered400 ==
    [][\A request \in AgentRequests :
            RunAgent(request) /\ Len(request.prompt) >= 1 /\ Len(request.mcp_schema.tools) = 0
                => /\ http_response'.status = 400
                   /\ sessions' = sessions]_vars

\* What the code keeps: such a request adds no row to sessions and is
\* answered without the result of a simulation, with status 500.
EmptyToolsLeaveSessionsAlone ==
    [][\A request \in AgentRequests :
            RunAgent(request) /\ Len(request.prompt) >= 1 /\ Len(request.mcp_schema.tools) = 0
                => /\ http_response'.status = 500
                   /\ http_response'.body = <<>>
                   /\ sessions' = sessions]_vars

====
